---- MODULE Spec2Model ----
(***************************************************************************)
(* A model of diffguard: the diff parser, signature analysis, symbol        *)
(* matching, change classification, the pipeline's cross-file move pass    *)
(* and the summarizer.  Texts are sequences of one-character strings; an   *)
(* optional value (Python's None) is the empty sequence, a present value x *)
(* is <<x>>.                                                               *)
(***************************************************************************)
EXTENDS Integers, Sequences, FiniteSets, TLC

VARIABLES
    pc,             \* position of the run being modelled
    old_node,       \* signatures.py run: the old declaration (name, parameters, return type)
    new_node,       \* signatures.py run: the new declaration
    old_signature,  \* signature text built for the old declaration
    new_signature,  \* signature text built for the new declaration
    breaking,       \* result of is_breaking_change(old_signature, new_signature)
    category,       \* result of classify_signature_change(old_signature, new_signature)
    old_symbols,    \* match_symbols run: the symbols of the old side of one file
    new_symbols,    \* match_symbols run: the symbols of the new side
    results,        \* match_symbols run: the MatchedSymbol list returned
    matches,        \* classify_changes run: the MatchedSymbol list to classify
    classified,     \* classify_changes run: _classify_one's answer for each entry
    changes,        \* classify_changes run: the SymbolChange list returned
    file_diffs,     \* run_pipeline: the parsed diff with the content of both refs
    idx,            \* run_pipeline: index of the next file of the loop
    file_changes,   \* run_pipeline: the FileChange records built so far
    unmatched_old,  \* run_pipeline: path -> old symbols without a partner
    unmatched_new,  \* run_pipeline: path -> new symbols without a partner
    moves,          \* run_pipeline: the moves match_cross_file returned
    calls,          \* run_pipeline: the calls of get_content and parse_file made so far
    pending,        \* cross-file run: the per-file results not yet put into the maps
    files,          \* summarizer: the FileChange list handed to it
    include_tests,  \* summarizer: the include_tests option
    show_skipped,   \* summarizer: the show_skipped option
    sorted_changes, \* build_summary: the ranking the focus list is taken from
    summary,        \* the Summary build_summary returned
    tiered,         \* the TieredSummary build_tiered_summary returned
    diff_lines,     \* parse_diff: the lines of the diff text
    parsed,         \* parse_diff: the FileDiff list returned (files, while it runs)
    line_idx,       \* parse_diff step by step: i, the line the parser is at
    cur_file,       \* parse_diff step by step: the file being read
    cur_hunk,       \* parse_diff step by step: the hunk being read
    hunk_at,        \* parse_diff step by step: _HUNK_RE.match of every line
    repo,           \* find_references: the files git lists at the ref, with their content
    changed_symbols,\* find_references: the names to look for
    changed_files,  \* find_references: the paths of the diff
    grep_fails,     \* find_references: git grep cannot be started (OSError)
    files_to_scan,  \* find_references: the files still to scan
    references,     \* find_references: the Reference list built so far, then returned
    args,           \* review: the options fmt, verbose, deps
    diff_text,      \* review: what get_diff returned
    output,         \* review: the files of the DiffGuardOutput run_pipeline returned
    dep_refs,       \* review: what find_references returned
    stdout,         \* review: the texts echoed to standard output
    stderr,         \* review: the texts echoed to standard error
    exit_code       \* review: the code the process exits with

sigVars == <<old_node, new_node, old_signature, new_signature, breaking, category>>

matchVars == <<old_symbols, new_symbols, results>>

classifyVars == <<matches, classified, changes>>

pipeVars == <<file_diffs, idx, file_changes, unmatched_old, unmatched_new, moves, calls, pending>>

sumVars == <<files, include_tests, show_skipped, sorted_changes, summary, tiered>>

parseVars == <<diff_lines, parsed, line_idx, cur_file, cur_hunk, hunk_at>>

depsVars == <<repo, changed_symbols, changed_files, grep_fails, files_to_scan, references>>

cliVars == <<args, diff_text, output, dep_refs, stdout, stderr, exit_code>>

\* the runs of the reference scan and of the command line
toolVars == <<depsVars, cliVars>>

vars == <<pc, sigVars, matchVars, classifyVars, pipeVars, sumVars, parseVars, toolVars>>

-----------------------------------------------------------------------------
(* Optional values and text helpers (Python built-ins used by the code).    *)

None == <<>>

Some(x) == <<x>>

Digits == <<"0", "1", "2", "3", "4", "5", "6", "7", "8", "9">>

IsNone(o) == o = <<>>

Get(o) == o[1]

Whitespace == {" ", "\n", "\t"}

RECURSIVE LStrip(_)
LStrip(s) == IF s # <<>> /\ Head(s) \in Whitespace THEN LStrip(Tail(s)) ELSE s

RECURSIVE RStrip(_)
RStrip(s) ==
    IF s # <<>> /\ s[Len(s)] \in Whitespace THEN RStrip(SubSeq(s, 1, Len(s) - 1)) ELSE s

\* str.strip()
Strip(s) == RStrip(LStrip(s))

\* str.find(ch): the first index of ch in s (1-based), 0 when absent
RECURSIVE FindFrom(_, _, _)
FindFrom(s, ch, i) ==
    IF i > Len(s) THEN 0
    ELSE IF s[i] = ch THEN i
    ELSE FindFrom(s, ch, i + 1)

Find(s, ch) == FindFrom(s, ch, 1)

Contains(s, ch) == Find(s, ch) # 0

\* s.split(ch)[0]
SplitFirst(s, ch) == IF Contains(s, ch) THEN SubSeq(s, 1, Find(s, ch) - 1) ELSE s

\* s.split(ch, 1)[1], for s containing ch
SplitRest(s, ch) == SubSeq(s, Find(s, ch) + 1, Len(s))

\* "sep".join(parts)
RECURSIVE Join(_, _)
Join(sep, parts) ==
    IF parts = <<>> THEN <<>>
    ELSE IF Len(parts) = 1 THEN parts[1]
    ELSE parts[1] \o sep \o Join(sep, Tail(parts))

Range(s) == {s[i] : i \in DOMAIN s}

-----------------------------------------------------------------------------
(* engine/signatures.py                                                     *)

\* the scan of _extract_balanced_params from index i at nesting depth
RECURSIVE BalancedScan(_, _, _, _)
BalancedScan(signature, start, i, depth) ==
    IF i > Len(signature) THEN None
    ELSE IF signature[i] \in {"(", "["}
        THEN BalancedScan(signature, start, i + 1, depth + 1)
    ELSE IF signature[i] \in {")", "]"}
        THEN IF depth - 1 = 0
             THEN Some(SubSeq(signature, start + 1, i - 1))
             ELSE BalancedScan(signature, start, i + 1, depth - 1)
    ELSE BalancedScan(signature, start, i + 1, depth)

_extract_balanced_params(signature) ==
    LET start == Find(signature, "(")
    IN  IF start = 0 THEN None ELSE BalancedScan(signature, start, start, 0)

\* the comma split of extract_params: params so far, current piece, depth
RECURSIVE SplitScan(_, _, _, _, _)
SplitScan(params_str, i, depth, current, params) ==
    IF i > Len(params_str)
    THEN LET last == Strip(current)
         IN  IF last # <<>> THEN Append(params, last) ELSE params
    ELSE LET ch == params_str[i]
             d  == IF ch \in {"(", "[", "{"} THEN depth + 1
                   ELSE IF ch \in {")", "]", "}"} THEN depth - 1
                   ELSE depth
         IN  IF ch = "," /\ d = 0
             THEN SplitScan(params_str, i + 1, d, <<>>, Append(params, Strip(current)))
             ELSE SplitScan(params_str, i + 1, d, Append(current, ch), params)

IsRealParam(p) == p # <<>> /\ p \notin {<<"s", "e", "l", "f">>, <<"c", "l", "s">>}

extract_params(signature) ==
    LET params_str == _extract_balanced_params(signature)
    IN  IF IsNone(params_str) \/ Strip(Get(params_str)) = <<>> THEN <<>>
        ELSE SelectSeq(SplitScan(Get(params_str), 1, 0, <<>>, <<>>), IsRealParam)

\* \s* from index i: the index of the first non-whitespace character at or after i
RECURSIVE SkipSpace(_, _)
SkipSpace(s, i) ==
    IF i <= Len(s) /\ s[i] \in Whitespace THEN SkipSpace(s, i + 1) ELSE i

\* whether  \)\s*->\s*(.+)$  matches with its ")" at index i: after the arrow come
\* whitespace and then at least one character, none of them a line break ('.'
\* excludes "\n"; '$' allows one final "\n")
ArrowRest(s, i) == SubSeq(s, SkipSpace(s, i + 1) + 2, Len(s))

ReturnMatchAt(s, i) ==
    LET j == SkipSpace(s, i + 1)
        rest == ArrowRest(s, i)
    IN  /\ s[i] = ")"
        /\ j + 1 <= Len(s)
        /\ s[j] = "-"
        /\ s[j + 1] = ">"
        /\ \E m \in 0..(Len(rest) - 1) :
              LET tail == SubSeq(rest, m + 1, Len(rest))
                  body == IF tail[Len(tail)] = "\n"
                          THEN SubSeq(tail, 1, Len(tail) - 1) ELSE tail
              IN  /\ \A k \in 1..m : rest[k] \in Whitespace
                  /\ body # <<>>
                  /\ ~Contains(body, "\n")

\* re.search: the leftmost match; group(1).strip()
RECURSIVE ReturnSearch(_, _)
ReturnSearch(s, i) ==
    IF i > Len(s) THEN None
    ELSE IF ReturnMatchAt(s, i) THEN Some(Strip(ArrowRest(s, i)))
    ELSE ReturnSearch(s, i + 1)

_extract_return_type(signature) == ReturnSearch(signature, 1)

\* a slip: the test looks for an annotation instead of a default
Mut_param_has_default(param) == Contains(param, ":")

_param_has_default(param) == Contains(param, "=")

_strip_default(param) == Strip(SplitFirst(param, "="))

\* <<positional, kwonly>>
RECURSIVE SplitStar(_, _, _, _)
SplitStar(params, seen_star, positional, kwonly) ==
    IF params = <<>> THEN <<positional, kwonly>>
    ELSE IF Head(params) = <<"*">>
        THEN SplitStar(Tail(params), TRUE, positional, kwonly)
    ELSE IF seen_star
        THEN SplitStar(Tail(params), seen_star, positional, Append(kwonly, Head(params)))
    ELSE SplitStar(Tail(params), seen_star, Append(positional, Head(params)), kwonly)

_split_positional_and_kwonly(params) == SplitStar(params, FALSE, <<>>, <<>>)

_param_default_value(param) ==
    IF ~Contains(param, "=") THEN None ELSE Some(Strip(SplitRest(param, "=")))

\* _strip_default(k).split(":")[0].strip()
KwName(k) == Strip(SplitFirst(_strip_default(k), ":"))

\* old_kw_map[name]: a dict comprehension keeps the last entry of a repeated key
RECURSIVE KwLookup(_, _)
KwLookup(kws, name) ==
    IF kws = <<>> THEN None
    ELSE IF KwName(kws[Len(kws)]) = name THEN Some(kws[Len(kws)])
    ELSE KwLookup(SubSeq(kws, 1, Len(kws) - 1), name)

DefaultChanged(old_p, new_p) ==
    LET old_def == _param_default_value(old_p)
        new_def == _param_default_value(new_p)
    IN  old_def # new_def /\ ~IsNone(old_def) /\ ~IsNone(new_def)

Min(a, b) == IF a < b THEN a ELSE b

is_breaking_change(old_sig, new_sig) ==
    IF old_sig = new_sig THEN FALSE
    ELSE
    LET old_split == _split_positional_and_kwonly(extract_params(old_sig))
        new_split == _split_positional_and_kwonly(extract_params(new_sig))
        old_pos == old_split[1]
        old_kw  == old_split[2]
        new_pos == new_split[1]
        new_kw  == new_split[2]
        old_ret == _extract_return_type(old_sig)
        new_ret == _extract_return_type(new_sig)
    IN  \/ Len(new_pos) < Len(old_pos)
        \/ \E i \in 1..Min(Len(old_pos), Len(new_pos)) :
              \/ _strip_default(old_pos[i]) # _strip_default(new_pos[i])
              \/ DefaultChanged(old_pos[i], new_pos[i])
        \/ /\ Len(new_pos) > Len(old_pos)
           /\ \E i \in (Len(old_pos) + 1)..Len(new_pos) : ~_param_has_default(new_pos[i])
        \/ \E i \in DOMAIN new_kw :
              LET old_k == KwLookup(old_kw, KwName(new_kw[i]))
              IN  /\ ~IsNone(old_k)
                  /\ \/ _strip_default(Get(old_k)) # _strip_default(new_kw[i])
                     \/ DefaultChanged(Get(old_k), new_kw[i])
        \/ \E i \in DOMAIN old_kw :
              KwName(old_kw[i]) \notin {KwName(new_kw[j]) : j \in DOMAIN new_kw}
        \/ \E i \in DOMAIN new_kw :
              /\ IsNone(KwLookup(old_kw, KwName(new_kw[i])))
              /\ ~_param_has_default(new_kw[i])
        \/ old_ret # new_ret /\ ~IsNone(old_ret) /\ ~IsNone(new_ret)

\* a slip: a parameter that gains or loses its default counts as a changed default
RECURSIVE Mut_DefaultScan(_, _)
Mut_DefaultScan(old_params, new_params) ==
    IF old_params = <<>> \/ new_params = <<>> THEN FALSE
    ELSE IF _strip_default(Head(old_params)) # _strip_default(Head(new_params)) THEN FALSE
    ELSE IF _param_default_value(Head(old_params)) # _param_default_value(Head(new_params))
        THEN TRUE
    ELSE Mut_DefaultScan(Tail(old_params), Tail(new_params))

\* the loop of is_default_value_change over the zipped parameters
RECURSIVE DefaultScan(_, _)
DefaultScan(old_params, new_params) ==
    IF old_params = <<>> \/ new_params = <<>> THEN FALSE
    ELSE IF _strip_default(Head(old_params)) # _strip_default(Head(new_params)) THEN FALSE
    ELSE LET old_def == _param_default_value(Head(old_params))
             new_def == _param_default_value(Head(new_params))
         IN  IF old_def # new_def /\ ~IsNone(old_def) /\ ~IsNone(new_def) THEN TRUE
             ELSE DefaultScan(Tail(old_params), Tail(new_params))

is_default_value_change(old_sig, new_sig) ==
    LET old_params == extract_params(old_sig)
        new_params == extract_params(new_sig)
    IN  IF Len(old_params) # Len(new_params) THEN FALSE
        ELSE DefaultScan(old_params, new_params)

\* a slip: equal texts get the breaking label
Mut_classify_signature_change(old_sig, new_sig) ==
    IF old_sig = new_sig THEN "BREAKING SIGNATURE CHANGE"
    ELSE IF is_breaking_change(old_sig, new_sig) THEN "BREAKING SIGNATURE CHANGE"
    ELSE "SIGNATURE CHANGED"

classify_signature_change(old_sig, new_sig) ==
    IF old_sig = new_sig THEN "SIGNATURE CHANGED"
    ELSE
    LET old_split == _split_positional_and_kwonly(extract_params(old_sig))
        new_split == _split_positional_and_kwonly(extract_params(new_sig))
        old_pos == old_split[1]
        old_kw  == old_split[2]
        new_pos == new_split[1]
        new_kw  == new_split[2]
        old_kw_names == {KwName(old_kw[i]) : i \in DOMAIN old_kw}
        new_kw_names == {KwName(new_kw[i]) : i \in DOMAIN new_kw}
        old_ret == _extract_return_type(old_sig)
        new_ret == _extract_return_type(new_sig)
    IN  IF Len(new_pos) < Len(old_pos) THEN "PARAMETER REMOVED"
        ELSE IF old_kw_names \ new_kw_names # {} THEN "PARAMETER REMOVED"
        ELSE IF /\ Len(new_pos) > Len(old_pos)
                /\ \E i \in (Len(old_pos) + 1)..Len(new_pos) : ~_param_has_default(new_pos[i])
            THEN "PARAMETER ADDED (BREAKING)"
        ELSE IF \E i \in DOMAIN new_kw :
                   KwName(new_kw[i]) \notin old_kw_names /\ ~_param_has_default(new_kw[i])
            THEN "PARAMETER ADDED (BREAKING)"
        ELSE IF is_default_value_change(old_sig, new_sig) THEN "DEFAULT VALUE CHANGED"
        ELSE IF old_ret # new_ret /\ ~IsNone(old_ret) /\ ~IsNone(new_ret)
            THEN "RETURN TYPE CHANGED"
        ELSE IF is_breaking_change(old_sig, new_sig) THEN "BREAKING SIGNATURE CHANGE"
        ELSE "SIGNATURE CHANGED"

-----------------------------------------------------------------------------
(* languages/python/__init__.py: signature reconstruction.  A node is a     *)
(* declaration of the syntax tree: its name, the source text of its         *)
(* parameter list, its return type and its decorators.                      *)

T_def == <<"d", "e", "f", " ">>

T_arrow == <<" ", "-", ">", " ">>

_build_function_signature(node, decorators) ==
    LET base == T_def \o node.name \o node.parameters
        sig == IF ~IsNone(node.return_type)
               THEN base \o T_arrow \o Get(node.return_type) ELSE base
    IN  IF decorators # <<>> THEN Join(<<"\n">>, decorators) \o <<"\n">> \o sig ELSE sig

T_class == <<"c", "l", "a", "s", "s", " ">>

\* node.superclasses is the text of the argument list, parentheses included
_build_class_signature(node) ==
    LET sig == T_class \o node.name
    IN  IF ~IsNone(node.superclasses) THEN sig \o Get(node.superclasses) ELSE sig

-----------------------------------------------------------------------------
(* engine/_types.py                                                         *)

\* re.sub(r"\s+", " ", text): every whitespace run becomes one space
RECURSIVE CollapseSpace(_)
CollapseSpace(text) ==
    IF text = <<>> THEN <<>>
    ELSE IF Head(text) \in Whitespace
        THEN <<" ">> \o CollapseSpace(LStrip(text))
    ELSE <<Head(text)>> \o CollapseSpace(Tail(text))

\* md5 is taken to be injective: the digest is stood for by the text it digests
compute_body_hash(body) == CollapseSpace(Strip(body))

\* a Symbol; id stands for the object's identity (Python's id()), which is not a
\* field of the dataclass: no two symbols of a run share it
Symbol(id, name, kind, signature, start_line, body_hash, parent) ==
    [id |-> id, name |-> name, kind |-> kind, signature |-> signature,
     start_line |-> start_line, body_hash |-> body_hash, parent |-> parent]

-----------------------------------------------------------------------------
(* languages/python/__init__.py: symbol extraction.  The walk visits the    *)
(* declarations in source order; each node carries the class the walk was   *)
(* in when it reached it (parent_class) and the line it starts on.          *)

\* _extract_class, and the class branch of _extract_decorated
_extract_class(node, id, line) ==
    LET class_sig == _build_class_signature(node)
        decorator_prefix ==
            IF node.decorators # <<>>
            THEN Join(<<"\n">>, node.decorators) \o <<"\n">> ELSE <<>>
    IN  Symbol(id, node.name, "class", decorator_prefix \o class_sig, line,
               compute_body_hash(node.body), None)

\* _extract_function, and the function branch of _extract_decorated
_extract_function(node, id, line) ==
    Symbol(id, node.name,
           IF ~IsNone(node.parent_class) THEN "method" ELSE "function",
           _build_function_signature(node, node.decorators), line,
           compute_body_hash(node.body), node.parent_class)

\* extract_symbols over the declarations of one side of the file at path
extract_symbols(nodes, path, side) ==
    [i \in DOMAIN nodes |->
        IF nodes[i].type = "class_definition"
        THEN _extract_class(nodes[i], <<path, side, i>>, i)
        ELSE _extract_function(nodes[i], <<path, side, i>>, i)]

-----------------------------------------------------------------------------
(* engine/matcher.py                                                        *)

MatchedSymbol(old, new, file_from, file_to) ==
    [old |-> old, new |-> new, file_from |-> file_from, file_to |-> file_to]

\* m.old and m.new
BothSides(m) == ~IsNone(m.old) /\ ~IsNone(m.new)

_key(s) == <<s.name, s.kind, s.parent>>

\* the keys of _build_index(symbols), in insertion order
RECURSIVE IndexKeys(_, _)
IndexKeys(symbols, seen) ==
    IF symbols = <<>> THEN seen
    ELSE IF _key(Head(symbols)) \in Range(seen) THEN IndexKeys(Tail(symbols), seen)
    ELSE IndexKeys(Tail(symbols), Append(seen, _key(Head(symbols))))

\* index.get(key, [])
_build_index(symbols, key) == SelectSeq(symbols, LAMBDA x : _key(x) = key)

\* list.remove(x): drops the first element equal to x
RECURSIVE Remove(_, _)
Remove(list, x) ==
    IF list = <<>> THEN <<>>
    ELSE IF Head(list) = x THEN Tail(list)
    ELSE <<Head(list)>> \o Remove(Tail(list), x)

\* a slip: the latest symbol with this signature text instead of the earliest
RECURSIVE Mut_FirstWithSignature(_, _, _)
Mut_FirstWithSignature(list, signature, i) ==
    IF i > Len(list) THEN 0
    ELSE IF Mut_FirstWithSignature(list, signature, i + 1) # 0
    THEN Mut_FirstWithSignature(list, signature, i + 1)
    ELSE IF list[i].signature = signature THEN i
    ELSE 0

\* index in list of the first symbol with this signature text, 0 when none
RECURSIVE FirstWithSignature(_, _, _)
FirstWithSignature(list, signature, i) ==
    IF i > Len(list) THEN 0
    ELSE IF list[i].signature = signature THEN i
    ELSE FirstWithSignature(list, signature, i + 1)

\* a slip: the paired new symbol is not taken out of remaining_new
RECURSIVE Mut_SignaturePass(_, _, _, _)
Mut_SignaturePass(todo, remaining_old, remaining_new, out) ==
    IF todo = <<>> THEN <<remaining_old, remaining_new, out>>
    ELSE LET o == Head(todo)
             j == FirstWithSignature(remaining_new, o.signature, 1)
         IN  IF j = 0
             THEN Mut_SignaturePass(Tail(todo), remaining_old, remaining_new, out)
             ELSE Mut_SignaturePass(Tail(todo), Remove(remaining_old, o), remaining_new,
                                    Append(out, MatchedSymbol(Some(o), Some(remaining_new[j]),
                                                              None, None)))

\* pass 1 of _match_duplicates: todo is the snapshot list(remaining_old)
RECURSIVE SignaturePass(_, _, _, _)
SignaturePass(todo, remaining_old, remaining_new, out) ==
    IF todo = <<>> THEN <<remaining_old, remaining_new, out>>
    ELSE LET o == Head(todo)
             j == FirstWithSignature(remaining_new, o.signature, 1)
         IN  IF j = 0
             THEN SignaturePass(Tail(todo), remaining_old, remaining_new, out)
             ELSE SignaturePass(Tail(todo), Remove(remaining_old, o),
                                Remove(remaining_new, remaining_new[j]),
                                Append(out, MatchedSymbol(Some(o), Some(remaining_new[j]),
                                                          None, None)))

\* pass 2 of _match_duplicates: positional pairing, then the leftovers
RECURSIVE PositionalPass(_, _, _)
PositionalPass(remaining_old, remaining_new, out) ==
    IF remaining_old # <<>> /\ remaining_new # <<>>
    THEN PositionalPass(Tail(remaining_old), Tail(remaining_new),
                        Append(out, MatchedSymbol(Some(Head(remaining_old)),
                                                  Some(Head(remaining_new)), None, None)))
    ELSE out
         \o [i \in DOMAIN remaining_old |->
                MatchedSymbol(Some(remaining_old[i]), None, None, None)]
         \o [i \in DOMAIN remaining_new |->
                MatchedSymbol(None, Some(remaining_new[i]), None, None)]

_match_duplicates(olds, news, out) ==
    LET p1 == SignaturePass(olds, olds, news, out)
    IN  PositionalPass(p1[1], p1[2], p1[3])

\* the loop of match_symbols over all_keys
RECURSIVE MatchKeys(_, _, _, _)
MatchKeys(keys, olds_all, news_all, out) ==
    IF keys = <<>> THEN out
    ELSE LET olds == _build_index(olds_all, Head(keys))
             news == _build_index(news_all, Head(keys))
             next ==
                IF Len(olds) > 1 \/ Len(news) > 1
                THEN _match_duplicates(olds, news, out)
                ELSE IF olds # <<>> /\ news # <<>>
                THEN Append(out, MatchedSymbol(Some(olds[1]), Some(news[1]), None, None))
                ELSE IF olds # <<>>
                THEN out \o [i \in DOMAIN olds |->
                                MatchedSymbol(Some(olds[i]), None, None, None)]
                ELSE out \o [i \in DOMAIN news |->
                                MatchedSymbol(None, Some(news[i]), None, None)]
         IN  MatchKeys(Tail(keys), olds_all, news_all, next)

match_symbols(olds, news) ==
    MatchKeys(IndexKeys(news, IndexKeys(olds, <<>>)), olds, news, <<>>)

\* unmatched: a dict path -> symbols, as the sequence of its items in insertion
\* order.  The (file, symbol) pairs of its values, flattened in iteration order.
RECURSIVE Flatten(_)
Flatten(unmatched) ==
    IF unmatched = <<>> THEN <<>>
    ELSE [i \in DOMAIN Head(unmatched)[2] |-> <<Head(unmatched)[1], Head(unmatched)[2][i]>>]
         \o Flatten(Tail(unmatched))

\* new_by_key.get(key, [])
NewByKey(unmatched, key) == SelectSeq(Flatten(unmatched), LAMBDA c : _key(c[2]) = key)

\* a slip: the guard asks for a difference in both instead of an agreement in one
Mut_MoveGuard(old_sym, new_sym) ==
    old_sym.signature # new_sym.signature \/ old_sym.body_hash # new_sym.body_hash

\* the guard of match_cross_file: signature text or body hash must agree
MoveGuard(old_sym, new_sym) ==
    ~(old_sym.signature # new_sym.signature /\ old_sym.body_hash # new_sym.body_hash)

\* a slip: a candidate that an earlier old symbol took is not passed over
RECURSIVE Mut_TakeCandidate(_, _, _, _, _)
Mut_TakeCandidate(candidates, i, old_file, old_sym, matched_new) ==
    IF i > Len(candidates) THEN 0
    ELSE IF ~MoveGuard(old_sym, candidates[i][2])
        THEN Mut_TakeCandidate(candidates, i + 1, old_file, old_sym, matched_new)
    ELSE IF candidates[i][1] # old_file THEN i
    ELSE Mut_TakeCandidate(candidates, i + 1, old_file, old_sym, matched_new)

\* the candidate loop for one old symbol: index of the candidate taken, 0 for none
RECURSIVE TakeCandidate(_, _, _, _, _)
TakeCandidate(candidates, i, old_file, old_sym, matched_new) ==
    IF i > Len(candidates) THEN 0
    ELSE IF candidates[i][2].id \in matched_new
        THEN TakeCandidate(candidates, i + 1, old_file, old_sym, matched_new)
    ELSE IF ~MoveGuard(old_sym, candidates[i][2])
        THEN TakeCandidate(candidates, i + 1, old_file, old_sym, matched_new)
    ELSE IF candidates[i][1] # old_file THEN i
    ELSE TakeCandidate(candidates, i + 1, old_file, old_sym, matched_new)

\* the loop of match_cross_file over the old symbols, in iteration order
RECURSIVE CrossLoop(_, _, _, _)
CrossLoop(olds, um_new, matched_new, out) ==
    IF olds = <<>> THEN out
    ELSE LET old_file == Head(olds)[1]
             old_sym == Head(olds)[2]
             candidates == NewByKey(um_new, _key(old_sym))
             i == TakeCandidate(candidates, 1, old_file, old_sym, matched_new)
         IN  IF i = 0 THEN CrossLoop(Tail(olds), um_new, matched_new, out)
             ELSE CrossLoop(Tail(olds), um_new, matched_new \cup {candidates[i][2].id},
                            Append(out, MatchedSymbol(Some(old_sym), Some(candidates[i][2]),
                                                      Some(old_file), Some(candidates[i][1]))))

match_cross_file(um_old, um_new) == CrossLoop(Flatten(um_old), um_new, {}, <<>>)

-----------------------------------------------------------------------------
(* schema.py and engine/classifier.py                                       *)

SymbolChange(kind, name, signature, before_signature, after_signature, file_from, line, is_breaking) ==
    [kind |-> kind, name |-> name, signature |-> signature,
     before_signature |-> before_signature, after_signature |-> after_signature,
     file_from |-> file_from, line |-> line, breaking |-> is_breaking]

_kind_prefix(kind) == IF kind = "class" THEN "class" ELSE "function"

\* the kinds for which kind.endswith(("_added", "_removed")) holds
AddedRemovedKinds == {"function_added", "class_added", "function_removed", "class_removed"}

\* a slip: the signature test comes before the unchanged test
Mut_classify_one(m) ==
    IF ~IsNone(m.file_from) /\ ~IsNone(m.old) /\ ~IsNone(m.new)
    THEN Some(SymbolChange("moved", Get(m.new).name, Some(Get(m.new).signature), None,
                           None, m.file_from, Get(m.new).start_line, FALSE))
    ELSE IF IsNone(m.old) /\ ~IsNone(m.new)
    THEN Some(SymbolChange(_kind_prefix(Get(m.new).kind) \o "_added", Get(m.new).name,
                           Some(Get(m.new).signature), None, None, None,
                           Get(m.new).start_line, FALSE))
    ELSE IF IsNone(m.new) /\ ~IsNone(m.old)
    THEN Some(SymbolChange(_kind_prefix(Get(m.old).kind) \o "_removed", Get(m.old).name,
                           Some(Get(m.old).signature), None, None, None,
                           Get(m.old).start_line, FALSE))
    ELSE IF Get(m.old).signature # Get(m.new).signature
    THEN Some(SymbolChange("signature_changed", Get(m.new).name, None,
                           Some(Get(m.old).signature), Some(Get(m.new).signature), None,
                           Get(m.new).start_line,
                           is_breaking_change(Get(m.old).signature, Get(m.new).signature)))
    ELSE IF Get(m.old).body_hash = Get(m.new).body_hash
    THEN None
    ELSE Some(SymbolChange(_kind_prefix(Get(m.new).kind) \o "_modified", Get(m.new).name,
                           Some(Get(m.new).signature), None, None, None,
                           Get(m.new).start_line, FALSE))

\* a slip: the unchanged test is left out
Mut_unchanged(m) ==
    IF ~IsNone(m.file_from) /\ ~IsNone(m.old) /\ ~IsNone(m.new)
    THEN Some(SymbolChange("moved", Get(m.new).name, Some(Get(m.new).signature), None,
                           None, m.file_from, Get(m.new).start_line, FALSE))
    ELSE IF IsNone(m.old) /\ ~IsNone(m.new)
    THEN Some(SymbolChange(_kind_prefix(Get(m.new).kind) \o "_added", Get(m.new).name,
                           Some(Get(m.new).signature), None, None, None,
                           Get(m.new).start_line, FALSE))
    ELSE IF IsNone(m.new) /\ ~IsNone(m.old)
    THEN Some(SymbolChange(_kind_prefix(Get(m.old).kind) \o "_removed", Get(m.old).name,
                           Some(Get(m.old).signature), None, None, None,
                           Get(m.old).start_line, FALSE))
    ELSE IF Get(m.old).signature # Get(m.new).signature
    THEN Some(SymbolChange("signature_changed", Get(m.new).name, None,
                           Some(Get(m.old).signature), Some(Get(m.new).signature), None,
                           Get(m.new).start_line,
                           is_breaking_change(Get(m.old).signature, Get(m.new).signature)))
    ELSE Some(SymbolChange(_kind_prefix(Get(m.new).kind) \o "_modified", Get(m.new).name,
                           Some(Get(m.new).signature), None, None, None,
                           Get(m.new).start_line, FALSE))

\* the SymbolChange for one MatchedSymbol, None when there is none
_classify_one(m) ==
    IF ~IsNone(m.file_from) /\ ~IsNone(m.old) /\ ~IsNone(m.new)
    THEN Some(SymbolChange("moved", Get(m.new).name, Some(Get(m.new).signature), None,
                           None, m.file_from, Get(m.new).start_line, FALSE))
    ELSE IF IsNone(m.old) /\ ~IsNone(m.new)
    THEN Some(SymbolChange(_kind_prefix(Get(m.new).kind) \o "_added", Get(m.new).name,
                           Some(Get(m.new).signature), None, None, None,
                           Get(m.new).start_line, FALSE))
    ELSE IF IsNone(m.new) /\ ~IsNone(m.old)
    THEN Some(SymbolChange(_kind_prefix(Get(m.old).kind) \o "_removed", Get(m.old).name,
                           Some(Get(m.old).signature), None, None, None,
                           Get(m.old).start_line, FALSE))
    ELSE IF Get(m.old).body_hash = Get(m.new).body_hash
    THEN None
    ELSE IF Get(m.old).signature # Get(m.new).signature
    THEN Some(SymbolChange("signature_changed", Get(m.new).name, None,
                           Some(Get(m.old).signature), Some(Get(m.new).signature), None,
                           Get(m.new).start_line,
                           is_breaking_change(Get(m.old).signature, Get(m.new).signature)))
    ELSE Some(SymbolChange(_kind_prefix(Get(m.new).kind) \o "_modified", Get(m.new).name,
                           Some(Get(m.new).signature), None, None, None,
                           Get(m.new).start_line, FALSE))

\* the answers of _classify_one in classify_changes' loop, entry by entry
ClassifyEach(ms) == [i \in DOMAIN ms |-> _classify_one(ms[i])]

\* the results list: the answers that are not None, in order
RECURSIVE Present(_)
Present(answers) ==
    IF answers = <<>> THEN <<>>
    ELSE IF IsNone(Head(answers)) THEN Present(Tail(answers))
    ELSE <<Get(Head(answers))>> \o Present(Tail(answers))

classify_changes(ms) == Present(ClassifyEach(ms))

-----------------------------------------------------------------------------
(* languages/__init__.py and engine/pipeline.py                             *)

\* index of the last occurrence of ch in s, 0 when absent
RECURSIVE RFind(_, _, _)
RFind(s, ch, i) ==
    IF i = 0 THEN 0 ELSE IF s[i] = ch THEN i ELSE RFind(s, ch, i - 1)

\* os.path.splitext(filename)[1]: from the last dot of the last path component,
\* unless that component starts with it
SplitExt(filename) ==
    LET slash == RFind(filename, "/", Len(filename))
        dot == RFind(filename, ".", Len(filename))
    IN  IF dot > slash + 1 THEN SubSeq(filename, dot, Len(filename)) ELSE <<>>

\* _EXTENSION_MAP.get(ext)
detect_language(filename) ==
    LET ext == SplitExt(filename)
    IN  IF ext = <<".", "p", "y">> THEN Some("python")
        ELSE IF ext \in {<<".", "j", "s">>, <<".", "j", "s", "x">>} THEN Some("javascript")
        ELSE IF ext \in {<<".", "t", "s">>, <<".", "t", "s", "x">>} THEN Some("typescript")
        ELSE IF ext = <<".", "g", "o">> THEN Some("go")
        ELSE None

FileChange(path, language, change_type, generated, binary, parse_error, unsupported_language, fchanges) ==
    [path |-> path, language |-> language, change_type |-> change_type,
     generated |-> generated, binary |-> binary, parse_error |-> parse_error,
     unsupported_language |-> unsupported_language, changes |-> fchanges]

\* FileDiff.path
FdPath(fd) ==
    IF ~IsNone(fd.new_path) /\ Get(fd.new_path) # <<>> THEN Get(fd.new_path)
    ELSE IF ~IsNone(fd.old_path) THEN Get(fd.old_path)
    ELSE <<>>

\* a slip: binary files are not held back
Mut_ShortCircuits(fd) == fd.generated \/ IsNone(detect_language(FdPath(fd)))

\* whether _process_file returns before it reads any content
ShortCircuits(fd) == fd.generated \/ fd.binary \/ IsNone(detect_language(FdPath(fd)))

\* get_content(old_ref, fd.old_path) if fd.old_path else None
OldSource(fd) ==
    IF ~IsNone(fd.old_path) /\ Get(fd.old_path) # <<>> THEN fd.old_content ELSE None

NewSource(fd) ==
    IF ~IsNone(fd.new_path) /\ Get(fd.new_path) # <<>> THEN fd.new_content ELSE None

\* one call of get_content or parse_file, for the file at path
Call(fn, side, path) == [fn |-> fn, side |-> side, path |-> path]

\* the calls _process_file makes for fd: get_content for each side whose path
\* is there, then parse_file for each side whose source is there
CallsOf(fd) ==
    IF ShortCircuits(fd) THEN <<>>
    ELSE (IF ~IsNone(fd.old_path) /\ Get(fd.old_path) # <<>>
          THEN <<Call("get_content", "old", Get(fd.old_path))>> ELSE <<>>)
         \o (IF ~IsNone(fd.new_path) /\ Get(fd.new_path) # <<>>
             THEN <<Call("get_content", "new", Get(fd.new_path))>> ELSE <<>>)
         \o (IF ~IsNone(OldSource(fd)) THEN <<Call("parse_file", "old", FdPath(fd))>> ELSE <<>>)
         \o (IF ~IsNone(NewSource(fd)) THEN <<Call("parse_file", "new", FdPath(fd))>> ELSE <<>>)

\* a slip: an absent old side is read from the new side's source
Mut_OldSymbols(fd) ==
    IF IsNone(OldSource(fd)) /\ IsNone(NewSource(fd)) THEN <<>>
    ELSE extract_symbols(Get(IF IsNone(OldSource(fd)) THEN NewSource(fd) ELSE OldSource(fd)),
                         FdPath(fd), "old")

\* parse_file(old_source, language).symbols, [] when the side is absent
OldSymbols(fd) ==
    IF IsNone(OldSource(fd)) THEN <<>>
    ELSE extract_symbols(Get(OldSource(fd)), FdPath(fd), "old")

NewSymbols(fd) ==
    IF IsNone(NewSource(fd)) THEN <<>>
    ELSE extract_symbols(Get(NewSource(fd)), FdPath(fd), "new")

\* um_old: the old symbols that are not the old side of a two-sided match
UnmatchedOld(olds, ms) ==
    LET matched_old_ids ==
            {Get(ms[j].old).id : j \in {k \in DOMAIN ms : BothSides(ms[k])}}
    IN  SelectSeq(olds, LAMBDA x : x.id \notin matched_old_ids)

UnmatchedNew(news, ms) ==
    LET matched_new_ids ==
            {Get(ms[j].new).id : j \in {k \in DOMAIN ms : BothSides(ms[k])}}
    IN  SelectSeq(news, LAMBDA x : x.id \notin matched_new_ids)

\* unmatched[path] = um, when um is not empty
DictSet(unmatched, path, um) ==
    IF um = <<>> THEN unmatched
    ELSE IF \E i \in DOMAIN unmatched : unmatched[i][1] = path
    THEN [i \in DOMAIN unmatched |->
             IF unmatched[i][1] = path THEN <<path, um>> ELSE unmatched[i]]
    ELSE Append(unmatched, <<path, um>>)

\* the FileChange _process_file returns for fd, given the classified changes
ProcessedFile(fd, fchanges) ==
    LET path == FdPath(fd)
    IN  IF fd.generated
        THEN FileChange(path, None, fd.change_type, TRUE, FALSE, FALSE, FALSE, <<>>)
        ELSE IF fd.binary
        THEN FileChange(path, None, fd.change_type, FALSE, TRUE, FALSE, FALSE, <<>>)
        ELSE IF IsNone(detect_language(path))
        THEN FileChange(path, None, fd.change_type, FALSE, FALSE, FALSE, TRUE, <<>>)
        ELSE FileChange(path, detect_language(path), fd.change_type, FALSE, FALSE, FALSE,
                        FALSE, fchanges)

\* move_paths: name -> (file_from, file_to); a later move of the same name
\* replaces the entry
RECURSIVE MovePaths(_, _)
MovePaths(ms, name) ==
    IF ms = <<>> THEN None
    ELSE IF Get(ms[Len(ms)].old).name = name
        THEN Some(<<Get(ms[Len(ms)].file_from), Get(ms[Len(ms)].file_to)>>)
    ELSE MovePaths(SubSeq(ms, 1, Len(ms) - 1), name)

\* fc_map.get(p): the index of the last record with this path, 0 when none
RECURSIVE FcIndex(_, _, _)
FcIndex(fcs, p, i) ==
    IF i = 0 THEN 0 ELSE IF fcs[i].path = p THEN i ELSE FcIndex(fcs, p, i - 1)

IsStale(c, name) == c.name = name /\ c.kind \in AddedRemovedKinds

\* fc.changes without the added/removed records of this name, for the file at p
StripStale(fcs, p, name) ==
    LET k == FcIndex(fcs, p, Len(fcs))
    IN  IF k = 0 THEN fcs
        ELSE [fcs EXCEPT ![k].changes = SelectSeq(@, LAMBDA c : ~IsStale(c, name))]

\* dst_fc.changes.append(mc)
Attach(fcs, p, mc) ==
    LET k == FcIndex(fcs, p, Len(fcs))
    IN  IF k = 0 THEN fcs ELSE [fcs EXCEPT ![k].changes = Append(@, mc)]

\* the loop of _apply_moves over move_changes
RECURSIVE ApplyLoop(_, _, _)
ApplyLoop(move_changes, ms, fcs) ==
    IF move_changes = <<>> THEN fcs
    ELSE LET mc == Head(move_changes)
             paths == MovePaths(ms, mc.name)
         IN  IF mc.kind # "moved" \/ IsNone(paths)
             THEN ApplyLoop(Tail(move_changes), ms, fcs)
             ELSE ApplyLoop(Tail(move_changes), ms,
                            Attach(StripStale(StripStale(fcs, Get(paths)[1], mc.name),
                                              Get(paths)[2], mc.name),
                                   Get(paths)[2], mc))

_apply_moves(ms, fcs) == ApplyLoop(classify_changes(ms), ms, fcs)

-----------------------------------------------------------------------------
(* engine/summarizer.py: ranking and test-path detection.                   *)

\* the characters of paths and names, in code-point order: Python compares
\* strings by code point
Ascii ==
    << ".", "/", "0", "1", "2", "3", "4", "5", "6", "7", "8", "9",
       "A", "B", "C", "D", "E", "F", "G", "H", "I", "J", "K", "L", "M",
       "N", "O", "P", "Q", "R", "S", "T", "U", "V", "W", "X", "Y", "Z", "_",
       "a", "b", "c", "d", "e", "f", "g", "h", "i", "j", "k", "l", "m",
       "n", "o", "p", "q", "r", "s", "t", "u", "v", "w", "x", "y", "z" >>

Ord(ch) == CHOOSE i \in DOMAIN Ascii : Ascii[i] = ch

\* a < b for two strings
RECURSIVE StrLess(_, _)
StrLess(a, b) ==
    IF b = <<>> THEN FALSE
    ELSE IF a = <<>> THEN TRUE
    ELSE IF Head(a) # Head(b) THEN Ord(Head(a)) < Ord(Head(b))
    ELSE StrLess(Tail(a), Tail(b))

\* str.lower() on one character
LowerChar(ch) ==
    IF Ord(ch) >= Ord("A") /\ Ord(ch) <= Ord("Z") THEN Ascii[Ord(ch) + 27] ELSE ch

Lower(s) == [i \in DOMAIN s |-> LowerChar(s[i])]

StartsWith(s, prefix) ==
    Len(s) >= Len(prefix) /\ SubSeq(s, 1, Len(prefix)) = prefix

EndsWith(s, suffix) ==
    Len(s) >= Len(suffix) /\ SubSeq(s, Len(s) - Len(suffix) + 1, Len(s)) = suffix

\* path.split("/")
RECURSIVE Segments(_)
Segments(path) ==
    LET i == Find(path, "/")
    IN  IF i = 0 THEN <<path>>
        ELSE <<SubSeq(path, 1, i - 1)>> \o Segments(SubSeq(path, i + 1, Len(path)))

T_test == <<"t", "e", "s", "t">>

T_spec == <<"s", "p", "e", "c">>

\* the directory names of _TEST_PATH_RE: tests?/ | spec/ | __tests__/
TestDirs == {T_test, T_test \o <<"s">>, T_spec, <<"_", "_">> \o T_test \o <<"s", "_", "_">>}

\* the extensions of the spec / test file alternatives: ts | js | tsx | jsx
ScriptExts == {<<"t", "s">>, <<"j", "s">>, <<"t", "s", "x">>, <<"j", "s", "x">>}

T_py == <<".", "p", "y">>

\* _TEST_PATH_RE.search(path) is not None; the pattern is case-insensitive
is_test_file(path) ==
    LET segs == Segments(Lower(path))
        base == segs[Len(segs)]
    IN  \/ \E i \in 1..(Len(segs) - 1) : segs[i] \in TestDirs
        \/ StartsWith(base, T_test \o <<"_">>) /\ EndsWith(base, T_py)
              /\ Len(base) >= Len(T_test) + 1 + Len(T_py)
        \/ EndsWith(base, <<"_">> \o T_test \o T_py)
        \/ \E sep \in {".", "_"}, word \in {T_spec, T_test}, ext \in ScriptExts :
              EndsWith(base, <<sep>> \o word \o <<".">> \o ext)

_P_BREAKING == 0

_P_REMOVED == 1

_P_SIG_CHANGED == 2

_P_ADDED == 3

_P_MODIFIED == 4

_P_MOVED == 5

\* _KIND_PRIORITY.get(kind, _P_MODIFIED)
_KIND_PRIORITY(kind) ==
    CASE kind = "signature_changed" -> _P_SIG_CHANGED
      [] kind \in {"function_removed", "class_removed"} -> _P_REMOVED
      [] kind \in {"function_added", "class_added"} -> _P_ADDED
      [] kind \in {"function_modified", "class_modified"} -> _P_MODIFIED
      [] kind = "moved" -> _P_MOVED
      [] OTHER -> _P_MODIFIED

\* a slip: the breaking flag is not looked at
Mut_change_priority(c) == _KIND_PRIORITY(c.kind)

_change_priority(c) == IF c.breaking THEN _P_BREAKING ELSE _KIND_PRIORITY(c.kind)

\* the sort key of a (path, change) pair, and its order
SortKey(p) == <<_change_priority(p[2]), p[1], p[2].name>>

KeyLess(k1, k2) ==
    \/ k1[1] < k2[1]
    \/ k1[1] = k2[1] /\ StrLess(k1[2], k2[2])
    \/ k1[1] = k2[1] /\ k1[2] = k2[2] /\ StrLess(k1[3], k2[3])

\* one pair put into a sorted list, behind the entries that do not come after it
RECURSIVE InsertPair(_, _)
InsertPair(sorted, p) ==
    IF sorted = <<>> THEN <<p>>
    ELSE IF KeyLess(SortKey(p), SortKey(Head(sorted))) THEN <<p>> \o sorted
    ELSE <<Head(sorted)>> \o InsertPair(Tail(sorted), p)

\* pairs.sort(key=...): the sort is stable
RECURSIVE SortPairs(_)
SortPairs(pairs) ==
    IF pairs = <<>> THEN <<>>
    ELSE InsertPair(SortPairs(SubSeq(pairs, 1, Len(pairs) - 1)), pairs[Len(pairs)])

\* the (fc.path, c) pairs of all files, in file order
RECURSIVE AllPairs(_)
AllPairs(fs) ==
    IF fs = <<>> THEN <<>>
    ELSE [i \in DOMAIN Head(fs).changes |-> <<Head(fs).path, Head(fs).changes[i]>>]
         \o AllPairs(Tail(fs))

_all_changes_sorted(fs) == SortPairs(AllPairs(fs))

\* _partition_files: (production, test), the test list empty unless included
ProdFiles(fs) == SelectSeq(fs, LAMBDA fc : ~is_test_file(fc.path))

TestFiles(fs, with_tests) ==
    IF with_tests THEN SelectSeq(fs, LAMBDA fc : is_test_file(fc.path)) ELSE <<>>

-----------------------------------------------------------------------------
(* engine/summarizer.py: build_summary.  A formatted string is stood for by *)
(* its template and the values put into it.                                 *)

\* _focus_label
_focus_label(path, c) ==
    IF c.breaking
    THEN [text |-> "BREAKING: '{name}' signature changed", name |-> c.name, from |-> None]
    ELSE CASE c.kind = "function_removed" ->
                [text |-> "Removed '{name}'", name |-> c.name, from |-> None]
           [] c.kind = "class_removed" ->
                [text |-> "Removed class '{name}'", name |-> c.name, from |-> None]
           [] c.kind = "function_added" ->
                [text |-> "New '{name}'", name |-> c.name, from |-> None]
           [] c.kind = "class_added" ->
                [text |-> "New class '{name}'", name |-> c.name, from |-> None]
           [] c.kind = "signature_changed" ->
                [text |-> "Signature change: '{name}'", name |-> c.name, from |-> None]
           [] c.kind = "function_modified" ->
                [text |-> "Modified '{name}'", name |-> c.name, from |-> None]
           [] c.kind = "class_modified" ->
                [text |-> "Modified class '{name}'", name |-> c.name, from |-> None]
           [] c.kind = "moved" ->
                [text |-> "Moved '{name}' from {file_from}", name |-> c.name,
                 from |-> c.file_from]
           [] OTHER ->
                [text |-> "Changed '{name}' in {path}", name |-> c.name, from |-> Some(path)]

\* a slip: a label already in the list is taken again
RECURSIVE Mut_FocusLoop(_, _)
Mut_FocusLoop(ranked, focus) ==
    IF ranked = <<>> \/ Len(focus) >= 5 THEN focus
    ELSE Mut_FocusLoop(Tail(ranked),
                       Append(focus, _focus_label(Head(ranked)[1], Head(ranked)[2])))

\* the focus loop: at most 5 labels, each once
RECURSIVE FocusLoop(_, _)
FocusLoop(ranked, focus) ==
    IF ranked = <<>> \/ Len(focus) >= 5 THEN focus
    ELSE LET label == _focus_label(Head(ranked)[1], Head(ranked)[2])
         IN  IF label \in Range(focus) THEN FocusLoop(Tail(ranked), focus)
             ELSE FocusLoop(Tail(ranked), Append(focus, label))

\* the changes of all files, in file order
AllChanges(fs) == [i \in DOMAIN AllPairs(fs) |-> AllPairs(fs)[i][2]]

\* dict(counter): the kinds that occur, each with its number of changes
ChangeTypes(fs) ==
    LET all == AllChanges(fs)
    IN  [k \in {all[i].kind : i \in DOMAIN all} |->
            Cardinality({i \in DOMAIN all : all[i].kind = k})]

build_summary(fs) ==
    [change_types |-> ChangeTypes(fs),
     breaking_changes |-> SelectSeq(AllChanges(fs), LAMBDA c : c.breaking),
     focus |-> FocusLoop(_all_changes_sorted(fs), <<>>)]

-----------------------------------------------------------------------------
(* engine/summarizer.py: the text tiers.  A text is the sequence of its     *)
(* lines; a line is stood for by its template and the values put into it;   *)
(* the backquotes of the source's templates are written ' here.             *)

Line(text, name, path, before, after, from, n, m, list) ==
    [text |-> text, name |-> name, path |-> path, before |-> before, after |-> after,
     from |-> from, n |-> n, m |-> m, list |-> list]

\* a line without values
Plain(text) == Line(text, <<>>, <<>>, None, None, None, 0, 0, <<>>)

Blank == Plain("")

Heading(title) == Plain("## " \o title)

\* f"- `{c.name}` ({path})"
PathItem(path, c) == Line("- '{name}' ({path})", c.name, path, None, None, None, 0, 0, <<>>)

\* f"- `{c.name}`: {c.before_signature} -> {c.after_signature}"
SigItem(c) ==
    Line("- '{name}': {before} -> {after}", c.name, <<>>, c.before_signature,
         c.after_signature, None, 0, 0, <<>>)

\* f"- `{c.name}` from {c.file_from}"
MovedItem(c) == Line("- '{name}' from {file_from}", c.name, <<>>, None, None, c.file_from, 0, 0, <<>>)

\* f"(and {remaining_prod} more)"
MoreLine(n) == Line("(and {n} more)", <<>>, <<>>, None, None, None, n, 0, <<>>)

\* f"- {f.path} ({reason})"
SkippedItem(fc) ==
    Line(IF fc.generated THEN "- {path} (generated)"
         ELSE IF fc.binary THEN "- {path} (binary)" ELSE "- {path} (unsupported)",
         <<>>, fc.path, None, None, None, 0, 0, <<>>)

\* the section a change is listed in, "" when it is listed in none
SectionOf(c) ==
    CASE c.kind \in {"function_removed", "class_removed"} -> "Removed"
      [] c.kind = "signature_changed" -> "Signature Changes"
      [] c.kind \in {"function_added", "class_added"} -> "Added"
      [] c.kind \in {"function_modified", "class_modified"} -> "Modified"
      [] c.kind = "moved" -> "Moved"
      [] OTHER -> ""

SectionItem(path, c) ==
    CASE SectionOf(c) = "Signature Changes" -> SigItem(c)
      [] SectionOf(c) = "Moved" -> MovedItem(c)
      [] OTHER -> PathItem(path, c)

\* sections[heading]: the items of the changes that are not breaking, in order
SectionItems(ranked, heading) ==
    LET mine == SelectSeq(ranked, LAMBDA p : ~p[2].breaking /\ SectionOf(p[2]) = heading)
    IN  [i \in DOMAIN mine |-> SectionItem(mine[i][1], mine[i][2])]

SectionHeadings == <<"Removed", "Signature Changes", "Added", "Modified", "Moved">>

\* the loop of _emit_change_sections over the sections; cap is None or Some(n)
RECURSIVE EmitLoop(_, _, _, _, _)
EmitLoop(ranked, h, cap, emitted, lines) ==
    IF h > Len(SectionHeadings) THEN [lines |-> lines, emitted |-> emitted]
    ELSE LET items == SectionItems(ranked, SectionHeadings[h])
         IN  IF items = <<>> THEN EmitLoop(ranked, h + 1, cap, emitted, lines)
             ELSE IF ~IsNone(cap) /\ Get(cap) - emitted <= 0
                 THEN [lines |-> lines, emitted |-> emitted]
             ELSE LET to_show ==
                          IF IsNone(cap) THEN items
                          ELSE SubSeq(items, 1, Min(Len(items), Get(cap) - emitted))
                  IN  EmitLoop(ranked, h + 1, cap, emitted + Len(to_show),
                               lines \o <<Heading(SectionHeadings[h])>> \o to_show
                                     \o <<Blank>>)

\* _emit_change_sections: the lines after the call and the number it returns
_emit_change_sections(ranked, lines, cap) == EmitLoop(ranked, 1, cap, 0, lines)

_DETAILED_CAP == 15

\* "\n".join(lines).strip(): the blank lines at both ends go
RECURSIVE StripLines(_)
StripLines(lines) ==
    IF lines = <<>> THEN <<>>
    ELSE IF Head(lines) = Blank THEN StripLines(Tail(lines))
    ELSE IF lines[Len(lines)] = Blank THEN StripLines(SubSeq(lines, 1, Len(lines) - 1))
    ELSE lines

IsSkipped(fc) == fc.generated \/ fc.binary \/ fc.unsupported_language

\* a slip: the test section gets the whole cap again
Mut_TestCap(emitted) == _DETAILED_CAP

\* the cap handed to the test section
TestCap(emitted) == IF emitted < _DETAILED_CAP THEN _DETAILED_CAP - emitted ELSE 5

_build_detailed(prod_files, test_files, all_files, sm, skipped_shown) ==
    LET prod_changes == _all_changes_sorted(prod_files)
        test_changes == _all_changes_sorted(test_files)
        lines0 ==
            IF sm.breaking_changes # <<>>
            THEN <<Heading("Breaking Changes")>>
                 \o [i \in DOMAIN sm.breaking_changes |-> SigItem(sm.breaking_changes[i])]
                 \o <<Blank>>
            ELSE <<>>
        prod == _emit_change_sections(prod_changes, lines0, Some(_DETAILED_CAP))
        breaking_in_prod ==
            Cardinality({i \in DOMAIN prod_changes : prod_changes[i][2].breaking})
        remaining_prod0 == Len(prod_changes) - prod.emitted - breaking_in_prod
        test == _emit_change_sections(test_changes,
                                      Append(prod.lines, Heading("Test Changes")),
                                      Some(TestCap(prod.emitted)))
        lines1 == IF test_changes # <<>> THEN test.lines ELSE prod.lines
        remaining_prod ==
            IF test_changes # <<>>
            THEN remaining_prod0 + (Len(test_changes) - test.emitted)
            ELSE remaining_prod0
        lines2 ==
            IF remaining_prod > 0 THEN lines1 \o <<MoreLine(remaining_prod), Blank>>
            ELSE lines1
        skipped == SelectSeq(all_files, IsSkipped)
        lines3 ==
            IF skipped_shown /\ skipped # <<>>
            THEN lines2 \o <<Heading("Skipped")>>
                 \o [i \in DOMAIN skipped |-> SkippedItem(skipped[i])] \o <<Blank>>
            ELSE lines2
    IN  StripLines(lines3)

\* the smallest string of a non-empty set
MinStr(S) == CHOOSE x \in S : \A y \in S : y = x \/ StrLess(x, y)

\* sorted(S) for a set of strings
RECURSIVE SortedStrs(_)
SortedStrs(S) ==
    IF S = {} THEN <<>> ELSE <<MinStr(S)>> \o SortedStrs(S \ {MinStr(S)})

\* ext if ext else f.path.rsplit("/", 1)[-1]
ExtOrName(path) ==
    IF SplitExt(path) # <<>> THEN SplitExt(path)
    ELSE SubSeq(path, RFind(path, "/", Len(path)) + 1, Len(path))

\* _unsupported_warning: None, or the warning line
_unsupported_warning(fs, skipped_shown) ==
    LET unsupported == SelectSeq(fs, LAMBDA fc : fc.unsupported_language)
    IN  IF skipped_shown \/ unsupported = <<>> THEN None
        ELSE Some(Line(IF Len(unsupported) # 1
                       THEN "{n} files skipped (unsupported: {exts}) - review manually"
                       ELSE "{n} file skipped (unsupported: {exts}) - review manually",
                       <<>>, <<>>, None, None, None, Len(unsupported), 0,
                       SortedStrs({ExtOrName(unsupported[i].path) : i \in DOMAIN unsupported})))

\* f"{verb} `{top.name}`"
VerbOf(kind) ==
    CASE kind \in {"function_added", "class_added"} -> "Add"
      [] kind \in {"function_removed", "class_removed"} -> "Remove"
      [] kind \in {"function_modified", "class_modified"} -> "Modify"
      [] kind = "signature_changed" -> "Change signature of"
      [] kind = "moved" -> "Move"
      [] OTHER -> "Change"

_build_oneliner(ranked, sm) ==
    IF sm.breaking_changes # <<>>
    THEN Line("BREAKING: '{name}' signature changed", sm.breaking_changes[1].name, <<>>,
              None, None, None, 0, 0, <<>>)
    ELSE Line(VerbOf(ranked[1][2].kind) \o " '{name}'", ranked[1][2].name, <<>>,
              None, None, None, 0, 0, <<>>)

\* the kinds the short text names one by one
BehaviouralKinds ==
    {"function_added", "class_added", "function_removed", "class_removed", "signature_changed"}

T_added == <<"a", "d", "d", "e", "d">>

T_removed == <<"r", "e", "m", "o", "v", "e", "d">>

T_changed == <<"c", "h", "a", "n", "g", "e", "d">>

\* c.kind.split('_')[-1] for a behavioural kind
KindWord(kind) ==
    CASE kind \in {"function_added", "class_added"} -> T_added
      [] kind \in {"function_removed", "class_removed"} -> T_removed
      [] OTHER -> T_changed

\* f"`{c.name}` ({word})"
BehaviouralItem(c) == <<"'">> \o c.name \o <<"'", " ", "(">> \o KindWord(c.kind) \o <<")">>

\* the behavioural loop of _build_short: it stops once it holds 4 items
RECURSIVE BehaviouralLoop(_, _)
BehaviouralLoop(ranked, behavioural) ==
    IF ranked = <<>> THEN behavioural
    ELSE LET c == Head(ranked)[2]
             next == IF ~c.breaking /\ c.kind \in BehaviouralKinds
                     THEN Append(behavioural, BehaviouralItem(c)) ELSE behavioural
         IN  IF c.breaking THEN BehaviouralLoop(Tail(ranked), behavioural)
             ELSE IF Len(next) >= 4 THEN next
             ELSE BehaviouralLoop(Tail(ranked), next)

\* f"`{c.name}`"
Quoted(name) == <<"'">> \o name \o <<"'">>

\* _build_short: the parts, which ". " joins
_build_short(ranked, sm) ==
    LET first3 == SubSeq(sm.breaking_changes, 1, Min(3, Len(sm.breaking_changes)))
        breaking_part ==
            IF sm.breaking_changes # <<>>
            THEN <<Line("Breaking: {names}", <<>>, <<>>, None, None, None, 0, 0,
                        [i \in DOMAIN first3 |-> Quoted(first3[i].name)])>>
            ELSE <<>>
        behavioural == BehaviouralLoop(ranked, <<>>)
        behavioural_part ==
            IF behavioural # <<>>
            THEN <<Line("{items}", <<>>, <<>>, None, None, None, 0, 0, behavioural)>>
            ELSE <<>>
        mod_count ==
            Cardinality({i \in DOMAIN ranked :
                            ranked[i][2].kind \in {"function_modified", "class_modified"}})
        move_count == Cardinality({i \in DOMAIN ranked : ranked[i][2].kind = "moved"})
        refactor ==
            Line(IF mod_count > 0 /\ move_count > 0 THEN "Refactor: {n} modified, {m} moved"
                 ELSE IF mod_count > 0 THEN "Refactor: {n} modified"
                 ELSE IF move_count > 0 THEN "Refactor: {m} moved"
                 ELSE "Minor changes",
                 <<>>, <<>>, None, None, None, mod_count, move_count, <<>>)
    IN  IF breaking_part \o behavioural_part # <<>> THEN breaking_part \o behavioural_part
        ELSE <<refactor>>

TieredSummary(oneliner, short, detailed) ==
    [oneliner |-> oneliner, short |-> short, detailed |-> detailed]

\* f"{text}\n{warning}" when there is a warning
WithWarning(lines, warning) ==
    IF IsNone(warning) THEN lines ELSE Append(lines, Get(warning))

\* build_tiered_summary; short is its first line's parts, then the warning line
build_tiered_summary(fs, sm, with_tests, skipped_shown) ==
    LET prod_files == ProdFiles(fs)
        test_files == TestFiles(fs, with_tests)
        prod_changes == _all_changes_sorted(prod_files)
        has_test_changes == AllPairs(TestFiles(fs, TRUE)) # <<>>
        n == Len(SelectSeq(fs, LAMBDA fc : ~IsSkipped(fc)))
        nothing == Plain("No substantive code changes.")
        no_symbols ==
            Line("Changed {n} file(s) with no symbol-level modifications.", <<>>, <<>>,
                 None, None, None, n, 0, <<>>)
        warning == _unsupported_warning(fs, skipped_shown)
        detailed == _build_detailed(prod_files, test_files, fs, sm, skipped_shown)
    IN  IF _all_changes_sorted(fs) = <<>>
        THEN IF n = 0 THEN TieredSummary(nothing, <<nothing>>, <<nothing>>)
             ELSE TieredSummary(no_symbols, <<no_symbols>>, <<no_symbols>>)
        ELSE IF prod_changes = <<>> /\ has_test_changes
        THEN TieredSummary(Plain("Test-only changes"),
                           WithWarning(<<Plain("Test-only changes")>>, warning),
                           WithWarning(detailed, warning))
        ELSE IF prod_changes = <<>>
        THEN TieredSummary(nothing, WithWarning(<<nothing>>, warning),
                           WithWarning(detailed, warning))
        ELSE TieredSummary(_build_oneliner(prod_changes, sm),
                           WithWarning(_build_short(prod_changes, sm), warning),
                           WithWarning(detailed, warning))

-----------------------------------------------------------------------------
(* git.py: parse_diff.  The diff text is held as its lines,                 *)
(* diff_text.split("\n"); line numbers of the text count from 1 here.       *)

\* sub in s, for texts
ContainsText(s, sub) ==
    \E i \in 1..(Len(s) - Len(sub) + 1) : SubSeq(s, i, i + Len(sub) - 1) = sub

\* the start of the last occurrence of sub in s, 0 when there is none
LastFind(s, sub) ==
    LET at == {i \in 1..(Len(s) - Len(sub) + 1) : SubSeq(s, i, i + Len(sub) - 1) = sub}
    IN  IF at = {} THEN 0 ELSE CHOOSE i \in at : \A j \in at : j <= i

DEFAULT_GENERATED_PATTERNS ==
    << <<"p", "a", "c", "k", "a", "g", "e", "-", "l", "o", "c", "k", ".", "j", "s", "o", "n">>,
       <<"y", "a", "r", "n", ".", "l", "o", "c", "k">>,
       <<"p", "n", "p", "m", "-", "l", "o", "c", "k", ".", "y", "a", "m", "l">>,
       <<"p", "o", "e", "t", "r", "y", ".", "l", "o", "c", "k">>,
       <<"P", "i", "p", "f", "i", "l", "e", ".", "l", "o", "c", "k">>,
       <<"C", "a", "r", "g", "o", ".", "l", "o", "c", "k">>,
       <<"g", "o", ".", "s", "u", "m">>,
       <<"c", "o", "m", "p", "o", "s", "e", "r", ".", "l", "o", "c", "k">>,
       <<"G", "e", "m", "f", "i", "l", "e", ".", "l", "o", "c", "k">>,
       <<"f", "l", "a", "k", "e", ".", "l", "o", "c", "k">>,
       <<".", "m", "i", "n", ".", "j", "s">>,
       <<".", "m", "i", "n", ".", "c", "s", "s">>,
       <<".", "m", "a", "p">>,
       <<"v", "e", "n", "d", "o", "r", "/">>,
       <<"n", "o", "d", "e", "_", "m", "o", "d", "u", "l", "e", "s", "/">>,
       <<"t", "h", "i", "r", "d", "_", "p", "a", "r", "t", "y", "/">>,
       <<"_", "_", "g", "e", "n", "e", "r", "a", "t", "e", "d", "_", "_", "/">>,
       <<".", "p", "b", ".", "g", "o">>,
       <<"_", "g", "e", "n", "e", "r", "a", "t", "e", "d", ".", "g", "o">> >>

\* is_generated(path, patterns)
is_generated(path) ==
    \E k \in DOMAIN DEFAULT_GENERATED_PATTERNS :
        LET pat == DEFAULT_GENERATED_PATTERNS[k]
        IN  IF EndsWith(pat, <<"/">>)
            THEN ContainsText(<<"/">> \o path, <<"/">> \o pat) \/ StartsWith(path, pat)
            ELSE IF StartsWith(pat, <<".">>) THEN EndsWith(path, pat)
            ELSE path = pat \/ EndsWith(path, <<"/">> \o pat)

HunkHeader(old_start, old_count, new_start, new_count, section) ==
    [old_start |-> old_start, old_count |-> old_count, new_start |-> new_start,
     new_count |-> new_count, section |-> section]

DiffLine(origin, content, old_lineno, new_lineno) ==
    [origin |-> origin, content |-> content, old_lineno |-> old_lineno,
     new_lineno |-> new_lineno]

DiffHunk(header, lines) == [header |-> header, lines |-> lines]

\* the FileDiff parse_diff builds
ParsedFileDiff(old_path, new_path, change_type, binary, generated, hunks) ==
    [old_path |-> old_path, new_path |-> new_path, change_type |-> change_type,
     binary |-> binary, generated |-> generated, hunks |-> hunks]

T_diff_git == <<"d", "i", "f", "f", " ", "-", "-", "g", "i", "t", " ">>

\* re.match(r"^diff --git a/(.*) b/(.*)$", line): the first group is greedy,
\* so the last " b/" of the line ends it; None, or the two groups
DiffGitMatch(line) ==
    LET prefix == T_diff_git \o <<"a", "/">>
        rest == SubSeq(line, Len(prefix) + 1, Len(line))
        k == LastFind(rest, <<" ", "b", "/">>)
    IN  IF ~StartsWith(line, prefix) \/ k = 0 THEN None
        ELSE Some(<<SubSeq(rest, 1, k - 1), SubSeq(rest, k + 3, Len(rest))>>)

T_binary_files == <<"B", "i", "n", "a", "r", "y", " ", "f", "i", "l", "e", "s">>

T_new_file_mode == <<"n", "e", "w", " ", "f", "i", "l", "e", " ", "m", "o", "d", "e">>

T_deleted_file_mode ==
    << "d", "e", "l", "e", "t", "e", "d", " ", "f", "i", "l", "e", " ", "m", "o", "d", "e" >>

T_minus3 == <<"-", "-", "-", " ">>

T_plus3 == <<"+", "+", "+", " ">>

T_dev_null == <<"/", "d", "e", "v", "/", "n", "u", "l", "l">>

T_at2 == <<"@", "@">>

\* the loop over the extended header lines; h holds i, old_path, new_path,
\* is_binary and change_type
RECURSIVE HeaderLoop(_, _)
HeaderLoop(lines, h) ==
    IF h.i > Len(lines) \/ StartsWith(lines[h.i], T_diff_git) THEN h
    ELSE LET hdr == lines[h.i]
             next == [h EXCEPT !.i = h.i + 1]
         IN  IF StartsWith(hdr, T_binary_files) THEN [next EXCEPT !.is_binary = TRUE]
             ELSE IF StartsWith(hdr, T_new_file_mode)
                 THEN HeaderLoop(lines, [next EXCEPT !.change_type = "added", !.old_path = None])
             ELSE IF StartsWith(hdr, T_deleted_file_mode)
                 THEN HeaderLoop(lines, [next EXCEPT !.change_type = "removed", !.new_path = None])
             ELSE IF StartsWith(hdr, T_minus3)
                 THEN IF hdr = T_minus3 \o T_dev_null
                      THEN HeaderLoop(lines, [next EXCEPT !.old_path = None, !.change_type = "added"])
                      ELSE HeaderLoop(lines, next)
             ELSE IF StartsWith(hdr, T_plus3)
                 THEN IF hdr = T_plus3 \o T_dev_null
                      THEN HeaderLoop(lines, [next EXCEPT !.new_path = None, !.change_type = "removed"])
                      ELSE HeaderLoop(lines, next)
             ELSE IF StartsWith(hdr, T_at2) THEN h
             ELSE HeaderLoop(lines, next)

IsDigit(ch) == \E k \in DOMAIN Digits : Digits[k] = ch

\* int(text) for a text of digits
RECURSIVE ToInt(_)
ToInt(s) ==
    IF s = <<>> THEN 0
    ELSE ToInt(SubSeq(s, 1, Len(s) - 1)) * 10
         + (CHOOSE k \in DOMAIN Digits : Digits[k] = s[Len(s)]) - 1

\* the position behind the digits that start at i: \d+ takes them all
RECURSIVE DigitsEnd(_, _)
DigitsEnd(s, i) == IF i <= Len(s) /\ IsDigit(s[i]) THEN DigitsEnd(s, i + 1) ELSE i

\* (\d+)(?:,(\d+))? at position i: None, or the start, the count group and
\* the position behind the match
RangeMatch(s, i) ==
    LET e1 == DigitsEnd(s, i)
        e2 == DigitsEnd(s, e1 + 1)
    IN  IF e1 = i THEN None
        ELSE IF e1 <= Len(s) /\ s[e1] = "," /\ e2 > e1 + 1
            THEN Some([start |-> SubSeq(s, i, e1 - 1), count |-> Some(SubSeq(s, e1 + 1, e2 - 1)),
                       next |-> e2])
        ELSE Some([start |-> SubSeq(s, i, e1 - 1), count |-> None, next |-> e1])

\* a slip: the counts are not optional
Mut_HunkMatch(line) ==
    LET lead == T_at2 \o <<" ", "-">>
        r1 == RangeMatch(line, Len(lead) + 1)
        p1 == Get(r1).next
        r2 == RangeMatch(line, p1 + 2)
        p2 == Get(r2).next
    IN  IF ~StartsWith(line, lead) \/ IsNone(r1) \/ IsNone(Get(r1).count) THEN None
        ELSE IF SubSeq(line, p1, p1 + 1) # <<" ", "+">> \/ IsNone(r2) THEN None
        ELSE IF IsNone(Get(r2).count) \/ SubSeq(line, p2, p2 + 2) # <<" ">> \o T_at2 THEN None
        ELSE Some(HunkHeader(ToInt(Get(r1).start), ToInt(Get(Get(r1).count)),
                             ToInt(Get(r2).start), ToInt(Get(Get(r2).count)),
                             Strip(SubSeq(line, p2 + 3, Len(line)))))

\* _HUNK_RE.match(line) and the HunkHeader built from it: None, or the header
HunkMatch(line) ==
    LET lead == T_at2 \o <<" ", "-">>
        r1 == RangeMatch(line, Len(lead) + 1)
        p1 == Get(r1).next
        r2 == RangeMatch(line, p1 + 2)
        p2 == Get(r2).next
    IN  IF ~StartsWith(line, lead) \/ IsNone(r1) THEN None
        ELSE IF SubSeq(line, p1, p1 + 1) # <<" ", "+">> \/ IsNone(r2) THEN None
        ELSE IF SubSeq(line, p2, p2 + 2) # <<" ">> \o T_at2 THEN None
        ELSE Some(HunkHeader(
                 ToInt(Get(r1).start),
                 IF IsNone(Get(r1).count) THEN 1 ELSE ToInt(Get(Get(r1).count)),
                 ToInt(Get(r2).start),
                 IF IsNone(Get(r2).count) THEN 1 ELSE ToInt(Get(Get(r2).count)),
                 Strip(SubSeq(line, p2 + 3, Len(line)))))

T_no_newline ==
    << "\\", " ", "N", "o", " ", "n", "e", "w", "l", "i", "n", "e", " ", "a", "t", " ", "e",
       "n", "d", " ", "o", "f", " ", "f", "i", "l", "e" >>

\* the prefixes that let an empty line count as an empty context line
ContinuesDiff(line) ==
    \/ StartsWith(line, T_diff_git) \/ StartsWith(line, T_at2)
    \/ \E ch \in {"+", "-", " "} : StartsWith(line, <<ch>>)
    \/ StartsWith(line, <<"\\", " ">>)

\* a slip: a removed line takes a new line number too
Mut_TakeLine(st, dl) ==
    IF StartsWith(dl, <<"+">>)
    THEN [st EXCEPT !.hunk_lines = Append(@, DiffLine("+", Tail(dl), None, Some(st.new_ln))),
                    !.new_ln = @ + 1]
    ELSE IF StartsWith(dl, <<"-">>)
    THEN [st EXCEPT !.hunk_lines = Append(@, DiffLine("-", Tail(dl), Some(st.old_ln), None)),
                    !.old_ln = @ + 1, !.new_ln = @ + 1]
    ELSE [st EXCEPT !.hunk_lines =
                        Append(@, DiffLine(" ", IF dl = <<>> THEN <<>> ELSE Tail(dl),
                                           Some(st.old_ln), Some(st.new_ln))),
                    !.old_ln = @ + 1, !.new_ln = @ + 1]

\* one added, removed or context line (dl empty: an empty context line) put
\* into the hunk, with its numbers
TakeLine(st, dl) ==
    IF StartsWith(dl, <<"+">>)
    THEN [st EXCEPT !.hunk_lines = Append(@, DiffLine("+", Tail(dl), None, Some(st.new_ln))),
                    !.new_ln = @ + 1]
    ELSE IF StartsWith(dl, <<"-">>)
    THEN [st EXCEPT !.hunk_lines = Append(@, DiffLine("-", Tail(dl), Some(st.old_ln), None)),
                    !.old_ln = @ + 1]
    ELSE [st EXCEPT !.hunk_lines =
                        Append(@, DiffLine(" ", IF dl = <<>> THEN <<>> ELSE Tail(dl),
                                           Some(st.old_ln), Some(st.new_ln))),
                    !.old_ln = @ + 1, !.new_ln = @ + 1]

\* the loop over the lines of one hunk; st holds i, old_ln, new_ln and the
\* lines of the hunk
RECURSIVE LineLoop(_, _)
LineLoop(lines, st) ==
    IF \/ st.i > Len(lines)
       \/ StartsWith(lines[st.i], T_diff_git)
       \/ StartsWith(lines[st.i], T_at2)
    THEN st
    ELSE LET dl == lines[st.i]
             next == [st EXCEPT !.i = st.i + 1]
         IN  IF \E ch \in {"+", "-", " "} : StartsWith(dl, <<ch>>)
             THEN LineLoop(lines, TakeLine(next, dl))
             ELSE IF StartsWith(dl, T_no_newline) THEN LineLoop(lines, next)
             ELSE IF dl = <<>>
                 THEN IF st.i + 1 <= Len(lines) /\ ContinuesDiff(lines[st.i + 1])
                      THEN LineLoop(lines, TakeLine(next, dl))
                      ELSE next
             ELSE LineLoop(lines, next)

\* the loop over the hunks of one file; st holds i and the hunks
RECURSIVE HunkLoop(_, _)
HunkLoop(lines, st) ==
    IF st.i > Len(lines) \/ StartsWith(lines[st.i], T_diff_git) THEN st
    ELSE IF StartsWith(lines[st.i], T_at2) /\ ~IsNone(HunkMatch(lines[st.i]))
        THEN LET header == Get(HunkMatch(lines[st.i]))
                 ll == LineLoop(lines, [i |-> st.i + 1, old_ln |-> header.old_start,
                                        new_ln |-> header.new_start, hunk_lines |-> <<>>])
             IN  HunkLoop(lines, [i |-> ll.i,
                                  hunks |-> Append(st.hunks, DiffHunk(header, ll.hunk_lines))])
    ELSE HunkLoop(lines, [st EXCEPT !.i = st.i + 1])

\* the loop of parse_diff over the files of the text
RECURSIVE ParseLoop(_, _, _)
ParseLoop(lines, i, fds) ==
    IF i > Len(lines) THEN fds
    ELSE IF ~StartsWith(lines[i], T_diff_git) \/ IsNone(DiffGitMatch(lines[i]))
        THEN ParseLoop(lines, i + 1, fds)
    ELSE LET m == Get(DiffGitMatch(lines[i]))
             h == HeaderLoop(lines, [i |-> i + 1, old_path |-> Some(m[1]),
                                     new_path |-> Some(m[2]), is_binary |-> FALSE,
                                     change_type |-> "modified"])
             canonical ==
                 IF ~IsNone(h.new_path) /\ Get(h.new_path) # <<>> THEN Get(h.new_path)
                 ELSE IF ~IsNone(h.old_path) THEN Get(h.old_path)
                 ELSE <<>>
             hl == HunkLoop(lines, [i |-> h.i, hunks |-> <<>>])
         IN  IF h.is_binary
             THEN ParseLoop(lines, h.i,
                            Append(fds, ParsedFileDiff(h.old_path, h.new_path, h.change_type,
                                                       TRUE, is_generated(canonical), <<>>)))
             ELSE ParseLoop(lines, hl.i,
                            Append(fds, ParsedFileDiff(h.old_path, h.new_path, h.change_type,
                                                       FALSE, is_generated(canonical),
                                                       hl.hunks)))

parse_diff(lines) == ParseLoop(lines, 1, <<>>)

-----------------------------------------------------------------------------
(* Declarations the signature runs draw from: Python parameter lists as a   *)
(* programmer writes them.  A parameter is a name, an optional annotation   *)
(* and an optional default.                                                 *)

MaxPos == 2

T_self == <<"s", "e", "l", "f">>

T_int == <<"i", "n", "t">>

T_str == <<"s", "t", "r">>

T_generic == <<"D", "[", "s", ",", " ", "i", "]">>

Param(n, t, d) == [name |-> n, type |-> t, default |-> d]

PosParams ==
    { Param(T_self, None, None),
      Param(<<"a">>, None, None),
      Param(<<"a">>, Some(T_generic), None),
      Param(<<"a">>, None, Some(<<"1">>)),
      Param(<<"a">>, None, Some(<<"2">>)),
      Param(<<"b">>, None, None),
      Param(<<"b">>, None, Some(<<"1">>)) }

KwParams ==
    { Param(<<"k">>, None, None),
      Param(<<"k">>, None, Some(<<"1">>)),
      Param(<<"k">>, None, Some(<<"2">>)),
      Param(<<"k">>, Some(T_int), Some(<<"1">>)) }

ReturnTypes == {None, Some(T_int), Some(T_str)}

NameOrd(n) == IF n = T_self THEN 0 ELSE IF n = <<"a">> THEN 1 ELSE 2

\* valid Python: self first, distinct names, no bare parameter after a defaulted one
ValidPos(ps) ==
    /\ \A i \in 1..(Len(ps) - 1) : NameOrd(ps[i].name) < NameOrd(ps[i + 1].name)
    /\ \A i \in 1..(Len(ps) - 1) : ~IsNone(ps[i].default) => ~IsNone(ps[i + 1].default)

PosLists == {ps \in UNION {[1..n -> PosParams] : n \in 0..MaxPos} : ValidPos(ps)}

ParamText(p) ==
    p.name
    \o (IF IsNone(p.type) THEN <<>> ELSE <<":", " ">> \o Get(p.type))
    \o (IF IsNone(p.default) THEN <<>>
        ELSE IF IsNone(p.type) THEN <<"=">> \o Get(p.default)
        ELSE <<" ", "=", " ">> \o Get(p.default))

\* the source text of the parameter list: positional parameters, then a bare *
\* and the keyword-only parameter when there is one
ParamsText(pos, kw) ==
    LET texts == [i \in DOMAIN pos |-> ParamText(pos[i])]
                 \o (IF IsNone(kw) THEN <<>> ELSE <<<<"*">>, ParamText(Get(kw))>>)
    IN  <<"(">> \o Join(<<",", " ">>, texts) \o <<")">>

SigNode(pos, kw, ret) ==
    [name |-> <<"f">>, pos |-> pos, kw |-> kw,
     parameters |-> ParamsText(pos, kw), return_type |-> ret]

SigNodes ==
    {SigNode(pos, kw, ret) :
        pos \in PosLists, kw \in {None} \cup {Some(k) : k \in KwParams}, ret \in ReturnTypes}

-----------------------------------------------------------------------------
(* Each run uses its own variables; the others stay at these values.        *)

IdleSig ==
    /\ old_node = None
    /\ new_node = None
    /\ old_signature = None
    /\ new_signature = None
    /\ breaking = None
    /\ category = None

IdleMatch ==
    /\ old_symbols = <<>>
    /\ new_symbols = <<>>
    /\ results = <<>>

IdleClassify ==
    /\ matches = <<>>
    /\ classified = <<>>
    /\ changes = <<>>

IdlePipe ==
    /\ file_diffs = <<>>
    /\ idx = 0
    /\ file_changes = <<>>
    /\ unmatched_old = <<>>
    /\ unmatched_new = <<>>
    /\ moves = <<>>
    /\ calls = <<>>
    /\ pending = {}

IdleSum ==
    /\ files = <<>>
    /\ include_tests = FALSE
    /\ show_skipped = FALSE
    /\ sorted_changes = <<>>
    /\ summary = <<>>
    /\ tiered = <<>>

IdleDeps ==
    /\ repo = <<>>
    /\ changed_symbols = <<>>
    /\ changed_files = {}
    /\ grep_fails = FALSE
    /\ files_to_scan = <<>>
    /\ references = <<>>

IdleCli ==
    /\ args = <<>>
    /\ diff_text = <<>>
    /\ output = <<>>
    /\ dep_refs = <<>>
    /\ stdout = <<>>
    /\ stderr = <<>>
    /\ exit_code = <<>>

IdleTools == IdleDeps /\ IdleCli

IdleParse ==
    /\ diff_lines = <<>>
    /\ parsed = <<>>
    /\ line_idx = 0
    /\ cur_file = <<>>
    /\ cur_hunk = <<>>
    /\ hunk_at = <<>>

-----------------------------------------------------------------------------
(* The signature run: two declarations of one function are turned into      *)
(* signature texts and compared.                                            *)

SigInit ==
    /\ pc = "sig_nodes"
    /\ old_node \in SigNodes
    /\ new_node \in SigNodes
    /\ old_signature = None
    /\ new_signature = None
    /\ breaking = None
    /\ category = None
    /\ IdleMatch
    /\ IdleClassify
    /\ IdlePipe
    /\ IdleSum
    /\ IdleParse
    /\ IdleTools

BuildSignatures ==
    /\ pc = "sig_nodes"
    /\ old_signature' = Some(_build_function_signature(old_node, <<>>))
    /\ new_signature' = Some(_build_function_signature(new_node, <<>>))
    /\ pc' = "sig_built"
    /\ UNCHANGED <<old_node, new_node, breaking, category,
                   matchVars, classifyVars, pipeVars, sumVars, parseVars, toolVars>>

IsBreakingChange ==
    /\ pc = "sig_built"
    /\ breaking' = Some(is_breaking_change(Get(old_signature), Get(new_signature)))
    /\ pc' = "sig_done"
    /\ UNCHANGED <<old_node, new_node, old_signature, new_signature, category,
                   matchVars, classifyVars, pipeVars, sumVars, parseVars, toolVars>>

\* classify_signature_change(sc.before_signature, sc.after_signature)
ClassifySignatureChange ==
    /\ pc = "sig_done"
    /\ category' = Some(classify_signature_change(Get(old_signature), Get(new_signature)))
    /\ pc' = "sig_labelled"
    /\ UNCHANGED <<old_node, new_node, old_signature, new_signature, breaking,
                   matchVars, classifyVars, pipeVars, sumVars, parseVars, toolVars>>

SigNext == BuildSignatures \/ IsBreakingChange \/ ClassifySignatureChange

SpecSig == SigInit /\ [][SigNext]_vars

-----------------------------------------------------------------------------
(* The Go method run: two declarations of one method with a receiver are    *)
(* turned into signature texts by the Go extractor and compared by the      *)
(* same comparison as every other language.                                 *)

MaxGoParams == 2

T_func == <<"f", "u", "n", "c", " ">>

T_string == <<"s", "t", "r", "i", "n", "g">>

T_error == <<"e", "r", "r", "o", "r">>

GoReceivers == {<<"(", "s", " ", "S", ")">>, <<"(", "s", " ", "*", "S", ")">>}

GoParam(n, t) == [name |-> n, type |-> t]

GoParams ==
    { GoParam(<<"a">>, T_int), GoParam(<<"a">>, T_string),
      GoParam(<<"b">>, T_int), GoParam(<<"c">>, T_int) }

GoResults == {None, Some(T_int), Some(T_error)}

\* valid Go: parameter names are distinct
GoParamLists ==
    {ps \in UNION {[1..n -> GoParams] : n \in 0..MaxGoParams} :
        \A i, j \in DOMAIN ps : i # j => ps[i].name # ps[j].name}

GoParamText(p) == p.name \o <<" ">> \o p.type

\* the source text of the parameter_list node
GoParamsText(ps) ==
    <<"(">> \o Join(<<",", " ">>, [i \in DOMAIN ps |-> GoParamText(ps[i])]) \o <<")">>

GoMethodNode(recv, ps, res) ==
    [name |-> <<"f">>, receiver |-> recv, params |-> ps,
     parameters |-> GoParamsText(ps), result |-> res]

GoMethodNodes ==
    {GoMethodNode(recv, ps, res) :
        recv \in GoReceivers, ps \in GoParamLists, res \in GoResults}

\* signature = f"func {receiver} {name}{params}{result}"
_extract_method(node) ==
    T_func \o node.receiver \o <<" ">> \o node.name \o node.parameters
    \o (IF IsNone(node.result) THEN <<>> ELSE <<" ">> \o Get(node.result))

GoInit ==
    /\ pc = "go_nodes"
    /\ old_node \in GoMethodNodes
    /\ new_node \in GoMethodNodes
    /\ old_signature = None
    /\ new_signature = None
    /\ breaking = None
    /\ category = None
    /\ IdleMatch
    /\ IdleClassify
    /\ IdlePipe
    /\ IdleSum
    /\ IdleParse
    /\ IdleTools

ExtractMethods ==
    /\ pc = "go_nodes"
    /\ old_signature' = Some(_extract_method(old_node))
    /\ new_signature' = Some(_extract_method(new_node))
    /\ pc' = "sig_built"
    /\ UNCHANGED <<old_node, new_node, breaking, category,
                   matchVars, classifyVars, pipeVars, sumVars, parseVars, toolVars>>

GoNext == ExtractMethods \/ IsBreakingChange \/ ClassifySignatureChange

SpecGo == GoInit /\ [][GoNext]_vars

-----------------------------------------------------------------------------
(* The matching run: match_symbols on the symbols of the two sides of one   *)
(* file.                                                                    *)

MaxSymbols == 3

T_pass == <<"p", "a", "s", "s">>

T_h == <<"h">>

T_X == <<"X">>

P_f == <<"f", ".", "p", "y">>

FuncNode(name, parent_class, parameters, return_type, decorators, body) ==
    [type |-> "function_definition", name |-> name, parameters |-> parameters,
     return_type |-> return_type, superclasses |-> None, decorators |-> decorators,
     body |-> body, parent_class |-> parent_class]

ClassNode(name, superclasses, decorators, body) ==
    [type |-> "class_definition", name |-> name, parameters |-> <<>>,
     return_type |-> None, superclasses |-> superclasses, decorators |-> decorators,
     body |-> body, parent_class |-> None]

Pa == Param(<<"a">>, None, None)

Pb == Param(<<"b">>, None, None)

Pb1 == Param(<<"b">>, None, Some(<<"1">>))

Pself == Param(T_self, None, None)

\* three overloads of function h and a method h of class X
MatchNodes ==
    { FuncNode(T_h, None, ParamsText(<<Pa>>, None), None, <<>>, T_pass),
      FuncNode(T_h, None, ParamsText(<<Pa, Pb>>, None), None, <<>>, T_pass),
      FuncNode(T_h, None, ParamsText(<<Pa, Pb1>>, None), None, <<>>, T_pass),
      FuncNode(T_h, Some(T_X), ParamsText(<<Pself, Pa>>, None), None, <<>>, T_pass) }

MatchNodeLists == UNION {[1..n -> MatchNodes] : n \in 0..MaxSymbols}

MatchInit ==
    /\ pc = "match_start"
    /\ old_symbols \in {extract_symbols(ns, P_f, "old") : ns \in MatchNodeLists}
    /\ new_symbols \in {extract_symbols(ns, P_f, "new") : ns \in MatchNodeLists}
    /\ results = <<>>
    /\ IdleSig
    /\ IdleClassify
    /\ IdlePipe
    /\ IdleSum
    /\ IdleParse
    /\ IdleTools

MatchSymbols ==
    /\ pc = "match_start"
    /\ results' = match_symbols(old_symbols, new_symbols)
    /\ pc' = "match_done"
    /\ UNCHANGED <<old_symbols, new_symbols, sigVars, classifyVars, pipeVars, sumVars, parseVars, toolVars>>

MatchNext == MatchSymbols

SpecMatch == MatchInit /\ [][MatchNext]_vars

-----------------------------------------------------------------------------
(* The classification run: classify_changes on a list of MatchedSymbol, as  *)
(* match_symbols (no file_from) and match_cross_file (file_from and file_to *)
(* set, both sides present) produce them: the two sides have the same key.  *)

MaxBatch == 2

T_return == <<"r", "e", "t", "u", "r", "n", " ", "a">>

T_B == <<"(", "B", ")">>

P_a == <<"a", ".", "p", "y">>

P_b == <<"b", ".", "p", "y">>

\* versions of function h, of method X.h and of class X
ClassifyNodes ==
    { FuncNode(T_h, None, ParamsText(<<Pa>>, None), None, <<>>, T_pass),
      FuncNode(T_h, None, ParamsText(<<Pa>>, None), None, <<>>, T_return),
      FuncNode(T_h, None, ParamsText(<<Pa, Pb>>, None), None, <<>>, T_return),
      FuncNode(T_h, None, ParamsText(<<Pa, Pb1>>, None), None, <<>>, T_return),
      FuncNode(T_h, Some(T_X), ParamsText(<<Pself, Pa>>, None), None, <<>>, T_pass),
      FuncNode(T_h, Some(T_X), ParamsText(<<Pself>>, None), None, <<>>, T_return),
      ClassNode(T_X, None, <<>>, T_pass),
      ClassNode(T_X, Some(T_B), <<>>, T_return) }

OldSymbolOf(node, path) == extract_symbols(<<node>>, path, "old")[1]

NewSymbolOf(node, path) == extract_symbols(<<node>>, path, "new")[1]

ClassifyInputs ==
    {MatchedSymbol(Some(OldSymbolOf(o, P_a)), Some(NewSymbolOf(n, P_a)), None, None) :
        o \in ClassifyNodes, n \in ClassifyNodes}
    \cup {MatchedSymbol(Some(OldSymbolOf(o, P_a)), Some(NewSymbolOf(n, P_b)),
                        Some(P_a), Some(P_b)) :
        o \in ClassifyNodes, n \in ClassifyNodes}
    \cup {MatchedSymbol(Some(OldSymbolOf(o, P_a)), None, None, None) : o \in ClassifyNodes}
    \cup {MatchedSymbol(None, Some(NewSymbolOf(n, P_a)), None, None) : n \in ClassifyNodes}

SameKeyEntry(m) ==
    ~IsNone(m.old) /\ ~IsNone(m.new) => _key(Get(m.old)) = _key(Get(m.new))

ClassifyBatches(n) == [1..n -> {m \in ClassifyInputs : SameKeyEntry(m)}]

ClassifyInit ==
    /\ pc = "classify_start"
    /\ \E n \in 1..MaxBatch : matches \in ClassifyBatches(n)
    /\ classified = <<>>
    /\ changes = <<>>
    /\ IdleSig
    /\ IdleMatch
    /\ IdlePipe
    /\ IdleSum
    /\ IdleParse
    /\ IdleTools

ClassifyChanges ==
    /\ pc = "classify_start"
    /\ classified' = ClassifyEach(matches)
    /\ changes' = classify_changes(matches)
    /\ pc' = "classify_done"
    /\ UNCHANGED <<matches, sigVars, matchVars, pipeVars, sumVars, parseVars, toolVars>>

ClassifyNext == ClassifyChanges

SpecClassify == ClassifyInit /\ [][ClassifyNext]_vars

-----------------------------------------------------------------------------
(* The pipeline run: run_pipeline on a parsed diff, with a content provider *)
(* that returns the declarations of each file at each ref.                  *)

MaxFiles == 2

T_d == <<"@", "d">>

Letters == <<"a", "b", "c", "d", "e", "f", "g">>

\* the path of the i-th file of the diff
PyPath(i) == <<Letters[i], ".", "p", "y">>

MdPath(i) == <<Letters[i], ".", "m", "d">>

\* a vendored Python file
VendorPath(i) == <<"v", "e", "n", "d", "o", "r", "/">> \o PyPath(i)

\* function h, h with another body, and h decorated
PipeFunctions ==
    { FuncNode(T_h, None, ParamsText(<<Pa>>, None), None, <<>>, T_pass),
      FuncNode(T_h, None, ParamsText(<<Pa>>, None), None, <<>>, T_return),
      FuncNode(T_h, None, ParamsText(<<Pa>>, None), None, <<T_d>>, T_pass) }

\* class X with its one method h: the walk reaches the class, then the method
PipeClass ==
    LET method == FuncNode(T_h, Some(T_X), ParamsText(<<Pself, Pa>>, None), None, <<>>, T_pass)
    IN  << ClassNode(T_X, None, <<>>,
                     T_def \o T_h \o method.parameters \o <<":", " ">> \o T_pass),
           method >>

\* the declarations of one side of a file: none, one function, or the class
PipeContents == {<<>>, PipeClass} \cup {<<n>> : n \in PipeFunctions}

\* a FileDiff as parse_diff builds it, with what get_content returns for its sides
FileDiff(old_path, new_path, change_type, generated, binary, old_content, new_content) ==
    [old_path |-> old_path, new_path |-> new_path, change_type |-> change_type,
     generated |-> generated, binary |-> binary,
     old_content |-> old_content, new_content |-> new_content]

\* the files _process_file holds back: vendored (generated), binary and of no
\* known language; the provider would have declarations for them
SkippedDiffsAt(i) ==
    LET h == <<FuncNode(T_h, None, ParamsText(<<Pa>>, None), None, <<>>, T_pass)>>
        gen == is_generated(VendorPath(i))
    IN  { FileDiff(Some(VendorPath(i)), None, "removed", gen, FALSE, Some(h), None),
          FileDiff(Some(VendorPath(i)), Some(VendorPath(i)), "modified", gen, TRUE,
                   Some(h), Some(<<>>)),
          FileDiff(None, Some(PyPath(i)), "added", FALSE, TRUE, None, Some(h)),
          FileDiff(Some(PyPath(i)), Some(PyPath(i)), "modified", FALSE, TRUE,
                   Some(PipeClass), Some(<<>>)),
          FileDiff(Some(MdPath(i)), Some(MdPath(i)), "modified", FALSE, FALSE,
                   Some(h), Some(<<>>)),
          FileDiff(None, Some(MdPath(i)), "added", FALSE, FALSE, None, Some(h)) }

FileDiffsOver(i, contents) ==
    {FileDiff(None, Some(PyPath(i)), "added", FALSE, FALSE, None, Some(n)) :
        n \in contents}
    \cup {FileDiff(Some(PyPath(i)), None, "removed", FALSE, FALSE, Some(o), None) :
        o \in contents}
    \cup {FileDiff(Some(PyPath(i)), Some(PyPath(i)), "modified", FALSE, FALSE,
                   Some(o), Some(n)) : o \in contents, n \in contents}
    \cup {FileDiff(Some(PyPath(i)), Some(PyPath(i)), "modified", FALSE, FALSE, o, n) :
             o \in {None}, n \in {None} \cup {Some(c) : c \in contents}}
    \cup {FileDiff(Some(PyPath(i)), Some(PyPath(i)), "modified", FALSE, FALSE, Some(o), None) :
             o \in contents}
    \cup {FileDiff(None, Some(PyPath(i)), "added", FALSE, FALSE, None, None)}
    \cup SkippedDiffsAt(i)

\* the first two files take every kind of content; a longer diff goes on with
\* files of one plain function at most
PlainContents == {<<>>, <<FuncNode(T_h, None, ParamsText(<<Pa>>, None), None, <<>>, T_pass)>>}

FileDiffsAt(i) == FileDiffsOver(i, IF i <= 2 THEN PipeContents ELSE PlainContents)

\* the diffs of n files, the i-th at the i-th path
RECURSIVE DiffsOf(_)
DiffsOf(n) ==
    IF n = 0 THEN {<<>>}
    ELSE {Append(fds, fd) : fds \in DiffsOf(n - 1), fd \in FileDiffsAt(n)}

PipeInit ==
    /\ pc = "pipe_loop"
    /\ \E n \in 1..MaxFiles : file_diffs \in DiffsOf(n)
    /\ idx = 1
    /\ file_changes = <<>>
    /\ unmatched_old = <<>>
    /\ unmatched_new = <<>>
    /\ moves = <<>>
    /\ calls = <<>>
    /\ pending = {}
    /\ IdleSig
    /\ IdleMatch
    /\ IdleClassify
    /\ IdleSum
    /\ IdleParse
    /\ IdleTools

\* one iteration of the loop over file_diffs: _process_file and the append
ProcessFile ==
    /\ pc = "pipe_loop"
    /\ idx <= Len(file_diffs)
    /\ LET fd == file_diffs[idx]
           olds == OldSymbols(fd)
           news == NewSymbols(fd)
           ms == match_symbols(olds, news)
       IN  /\ file_changes' = Append(file_changes, ProcessedFile(fd, classify_changes(ms)))
           /\ unmatched_old' =
                 IF ShortCircuits(fd) THEN unmatched_old
                 ELSE DictSet(unmatched_old, FdPath(fd), UnmatchedOld(olds, ms))
           /\ unmatched_new' =
                 IF ShortCircuits(fd) THEN unmatched_new
                 ELSE DictSet(unmatched_new, FdPath(fd), UnmatchedNew(news, ms))
           /\ calls' = calls \o CallsOf(fd)
    /\ idx' = idx + 1
    /\ pc' = IF idx = Len(file_diffs) THEN "pipe_cross" ELSE "pipe_loop"
    /\ UNCHANGED <<file_diffs, moves, pending, sigVars, matchVars, classifyVars, sumVars, parseVars, toolVars>>

\* if unmatched_old and unmatched_new: moves = match_cross_file(...)
MatchCrossFile ==
    /\ pc = "pipe_cross"
    /\ unmatched_old # <<>> /\ unmatched_new # <<>>
    /\ moves' = match_cross_file(unmatched_old, unmatched_new)
    /\ pc' = "pipe_apply"
    /\ UNCHANGED <<file_diffs, idx, file_changes, unmatched_old, unmatched_new, calls, pending,
                   sigVars, matchVars, classifyVars, sumVars, parseVars, toolVars>>

\* the summary built before the moves are patched in
Mut_ApplyMoves ==
    /\ pc = "pipe_apply"
    /\ sorted_changes' = _all_changes_sorted(file_changes)
    /\ summary' = build_summary(file_changes)
    /\ tiered' = build_tiered_summary(file_changes, summary', include_tests, show_skipped)
    /\ file_changes' = _apply_moves(moves, file_changes)
    /\ pc' = "pipe_out"
    /\ UNCHANGED <<file_diffs, idx, unmatched_old, unmatched_new, moves, calls, pending,
                   files, include_tests, show_skipped,
                   sigVars, matchVars, classifyVars, parseVars, toolVars>>

\* _apply_moves(moves, file_changes)
ApplyMoves ==
    /\ pc = "pipe_apply"
    /\ file_changes' = _apply_moves(moves, file_changes)
    /\ pc' = "pipe_done"
    /\ UNCHANGED <<file_diffs, idx, unmatched_old, unmatched_new, moves, calls, pending,
                   sigVars, matchVars, classifyVars, sumVars, parseVars, toolVars>>

\* the cross-file pass is skipped when one of the two maps is empty
SkipMoves ==
    /\ pc = "pipe_cross"
    /\ ~(unmatched_old # <<>> /\ unmatched_new # <<>>)
    /\ pc' = "pipe_done"
    /\ UNCHANGED <<file_diffs, idx, file_changes, unmatched_old, unmatched_new, moves, calls, pending,
                   sigVars, matchVars, classifyVars, sumVars, parseVars, toolVars>>

\* summary = build_summary(file_changes); tiered = build_tiered_summary(...)
Summarize ==
    /\ pc = "pipe_done"
    /\ sorted_changes' = _all_changes_sorted(file_changes)
    /\ summary' = build_summary(file_changes)
    /\ tiered' = build_tiered_summary(file_changes, summary', include_tests, show_skipped)
    /\ pc' = "pipe_out"
    /\ UNCHANGED <<files, include_tests, show_skipped,
                   sigVars, matchVars, classifyVars, pipeVars, parseVars, toolVars>>

PipeNext == ProcessFile \/ MatchCrossFile \/ ApplyMoves \/ SkipMoves \/ Summarize

SpecPipeline == PipeInit /\ [][PipeNext]_vars

-----------------------------------------------------------------------------
(* The cross-file run: the per-file results (path, unmatched old symbols,   *)
(* unmatched new symbols) are put into the two maps in any order, then      *)
(* match_cross_file and _apply_moves run as in run_pipeline.  The symbols   *)
(* are function h, h with a second parameter beside method h of class X,    *)
(* and h with another body; as in the tests of match_cross_file a file may  *)
(* hold an old and a new symbol of one key.                                 *)

MaxCross == 3

CrossOlds ==
    { <<>>,
      <<FuncNode(T_h, None, ParamsText(<<Pa>>, None), None, <<>>, T_pass)>>,
      <<FuncNode(T_h, Some(T_X), ParamsText(<<Pself, Pa>>, None), None, <<>>, T_pass),
        FuncNode(T_h, None, ParamsText(<<Pa, Pb>>, None), None, <<>>, T_pass)>> }

CrossNews ==
    { <<>>,
      <<FuncNode(T_h, None, ParamsText(<<Pa>>, None), None, <<>>, T_pass)>>,
      <<FuncNode(T_h, None, ParamsText(<<Pa>>, None), None, <<>>, T_return)>> }

\* what _process_file leaves for the file at path i
FileResult(i, old_nodes, new_nodes) ==
    [path |-> PyPath(i),
     olds |-> extract_symbols(old_nodes, PyPath(i), "old"),
     news |-> extract_symbols(new_nodes, PyPath(i), "new")]

\* the FileChange of a file all of whose symbols are unmatched
UnmatchedFile(f) ==
    FileChange(f.path, detect_language(f.path), "modified", FALSE, FALSE, FALSE, FALSE,
               classify_changes([i \in DOMAIN f.olds |->
                                     MatchedSymbol(Some(f.olds[i]), None, None, None)]
                                \o [i \in DOMAIN f.news |->
                                       MatchedSymbol(None, Some(f.news[i]), None, None)]))

CrossInit ==
    /\ pc = "cross_insert"
    /\ \E n \in 2..MaxCross :
       \E os \in [1..n -> CrossOlds], ns \in [1..n -> CrossNews] :
          /\ pending = {FileResult(i, os[i], ns[i]) : i \in 1..n}
          /\ file_changes = [i \in 1..n |-> UnmatchedFile(FileResult(i, os[i], ns[i]))]
    /\ file_diffs = <<>>
    /\ idx = 0
    /\ unmatched_old = <<>>
    /\ unmatched_new = <<>>
    /\ moves = <<>>
    /\ calls = <<>>
    /\ IdleSig
    /\ IdleMatch
    /\ IdleClassify
    /\ IdleSum
    /\ IdleParse
    /\ IdleTools

\* _process_file: unmatched_old[path] = um_old, unmatched_new[path] = um_new,
\* for the files in the order they finish
InsertFile ==
    /\ pc = "cross_insert"
    /\ \E f \in pending :
          /\ unmatched_old' = DictSet(unmatched_old, f.path, f.olds)
          /\ unmatched_new' = DictSet(unmatched_new, f.path, f.news)
          /\ pending' = pending \ {f}
          /\ pc' = IF pending = {f} THEN "pipe_cross" ELSE "cross_insert"
    /\ UNCHANGED <<file_diffs, idx, file_changes, moves, calls,
                   sigVars, matchVars, classifyVars, sumVars, parseVars, toolVars>>

CrossNext == InsertFile \/ MatchCrossFile \/ ApplyMoves \/ SkipMoves

SpecCross == CrossInit /\ [][CrossNext]_vars

-----------------------------------------------------------------------------
(* The summary run: build_summary, then build_tiered_summary, on a list of  *)
(* FileChange records as the pipeline hands it over.  Two families of       *)
(* lists: short ones with every kind of change in any order, and long ones  *)
(* whose length is around the cap of the detailed text.                     *)

MaxChanges == 3

MaxOver == 1

T_g == <<"g">>

T_H == <<"H">>

P_tests_a == <<"t", "e", "s", "t", "s", "/", "a", ".", "p", "y">>

P_tests_t == <<"t", "e", "s", "t", "s", "/", "t", ".", "p", "y">>

P_n_md == <<"n", ".", "m", "d">>

\* the signature text of a function of this name and these parameters
SigOf(name, pos) == T_def \o name \o ParamsText(pos, None)

\* the records _classify_one writes, by kind
RemovedChange(name) ==
    SymbolChange("function_removed", name, Some(SigOf(name, <<Pa>>)), None, None, None, 1, FALSE)

AddedChange(name) ==
    SymbolChange("function_added", name, Some(SigOf(name, <<Pa>>)), None, None, None, 1, FALSE)

ModifiedChange(name) ==
    SymbolChange("function_modified", name, Some(SigOf(name, <<Pa>>)), None, None, None, 1, FALSE)

MovedChange(name, from) ==
    SymbolChange("moved", name, Some(SigOf(name, <<Pa>>)), None, None, Some(from), 1, FALSE)

\* a parameter with a default is added: not breaking
SignatureChange(name) ==
    SymbolChange("signature_changed", name, None, Some(SigOf(name, <<Pa>>)),
                 Some(SigOf(name, <<Pa, Pb1>>)), None, 1, FALSE)

\* a parameter is removed: breaking
BreakingChange(name) ==
    SymbolChange("signature_changed", name, None, Some(SigOf(name, <<Pa, Pb>>)),
                 Some(SigOf(name, <<Pa>>)), None, 1, TRUE)

\* one change of every bucket of the ranking
SomeChanges ==
    { BreakingChange(T_h), RemovedChange(T_g), SignatureChange(T_H), AddedChange(T_g),
      ModifiedChange(T_h), MovedChange(T_g, P_a) }

PythonFile(path, cs) == FileChange(path, Some("python"), "modified", FALSE, FALSE, FALSE, FALSE, cs)

UnsupportedFile(path) == FileChange(path, None, "modified", FALSE, FALSE, FALSE, TRUE, <<>>)

\* two files, the second sorting before the first, or a test file, or unsupported
ShortFiles(n1, n2) ==
    {<<PythonFile(P_b, c1), PythonFile(p, c2)>> :
        c1 \in [1..n1 -> SomeChanges], c2 \in [1..n2 -> SomeChanges], p \in {P_a, P_tests_a}}
    \cup (IF n2 = 0
          THEN {<<PythonFile(P_b, c1), UnsupportedFile(P_n_md)>> : c1 \in [1..n1 -> SomeChanges]}
          ELSE {})

\* the name of the i-th symbol of a run: a letter and two digits
NameNo(letter, i) == <<letter, Digits[(i \div 10) + 1], Digits[(i % 10) + 1]>>

\* the room the test section gets once the production sections are full
TestRoom == TestCap(_DETAILED_CAP)

\* a production file and a test file with runs of breaking, removed and added
\* changes of the given lengths
LongFiles(pb, pr, pa, tb, ta) ==
    << PythonFile(P_a, [i \in 1..pb |-> BreakingChange(NameNo("k", i))]
                       \o [i \in 1..pa |-> AddedChange(NameNo("f", i))]
                       \o [i \in 1..pr |-> RemovedChange(NameNo("r", i))]),
       PythonFile(P_tests_t, [i \in 1..tb |-> BreakingChange(NameNo("k", i))]
                             \o [i \in 1..ta |-> AddedChange(NameNo("t", i))]) >>

MaxRun == 2

\* the changes of a file with several breaking changes: breaking changes of
\* two names and an added function
RankChanges == {BreakingChange(T_h), BreakingChange(T_g), AddedChange(T_X)}

\* two files with up to MaxRun such changes each, the second sorting before
\* the first, or a test file
RankFiles(n1, n2) ==
    {<<PythonFile(P_b, c1), PythonFile(p, c2)>> :
        c1 \in [1..n1 -> RankChanges], c2 \in [1..n2 -> RankChanges], p \in {P_a, P_tests_a}}

SumInit ==
    /\ pc = "sum_start"
    /\ \/ /\ \E n1 \in 0..MaxChanges : \E n2 \in 0..(MaxChanges - n1) :
                files \in ShortFiles(n1, n2)
          /\ show_skipped \in BOOLEAN
       \/ /\ \E pb \in 0..1, pr \in 0..MaxOver, tb \in 0..1 :
             \E pa \in {0} \cup ((_DETAILED_CAP - 1)..(_DETAILED_CAP + MaxOver)) :
             \E ta \in {0} \cup ((TestRoom - 1)..(TestRoom + MaxOver)) :
                files = LongFiles(pb, pr, pa, tb, ta)
          /\ show_skipped = FALSE
       \/ /\ \E n1 \in 1..MaxRun, n2 \in 0..MaxRun : files \in RankFiles(n1, n2)
          /\ show_skipped = FALSE
    /\ include_tests \in BOOLEAN
    /\ sorted_changes = <<>>
    /\ summary = <<>>
    /\ tiered = <<>>
    /\ IdleSig
    /\ IdleMatch
    /\ IdleClassify
    /\ IdlePipe
    /\ IdleParse
    /\ IdleTools

\* build_summary(file_changes)
BuildSummary ==
    /\ pc = "sum_start"
    /\ sorted_changes' = _all_changes_sorted(files)
    /\ summary' = build_summary(files)
    /\ pc' = "sum_tiers"
    /\ UNCHANGED <<files, include_tests, show_skipped, tiered,
                   sigVars, matchVars, classifyVars, pipeVars, parseVars, toolVars>>

\* build_tiered_summary(file_changes, summary, include_tests, show_skipped)
BuildTieredSummary ==
    /\ pc = "sum_tiers"
    /\ tiered' = build_tiered_summary(files, summary, include_tests, show_skipped)
    /\ pc' = "sum_done"
    /\ UNCHANGED <<files, include_tests, show_skipped, sorted_changes, summary,
                   sigVars, matchVars, classifyVars, pipeVars, parseVars, toolVars>>

SumNext == BuildSummary \/ BuildTieredSummary

SpecSummary == SumInit /\ [][SumNext]_vars

-----------------------------------------------------------------------------
(* A run of parse_diff over a diff text.                                    *)

MaxHeader == 3

MaxHunkLines == 4

L_diff ==
    << "d", "i", "f", "f", " ", "-", "-", "g", "i", "t", " ", "a", "/", "x", ".", "p", "y",
       " ", "b", "/", "x", ".", "p", "y" >>

L_diff_vendor ==
    << "d", "i", "f", "f", " ", "-", "-", "g", "i", "t", " ", "a", "/", "v", "e", "n", "d",
       "o", "r", "/", "y", ".", "p", "y", " ", "b", "/", "v", "e", "n", "d", "o", "r", "/",
       "y", ".", "p", "y" >>

L_diff_empty == <<"d", "i", "f", "f", " ", "-", "-", "g", "i", "t", " ", "a", "/", " ", "b", "/">>

L_diff_nopaths == <<"d", "i", "f", "f", " ", "-", "-", "g", "i", "t", " ", "x", ".", "p", "y">>

L_index == <<"i", "n", "d", "e", "x", " ", "1", ".", ".", "2", " ", "1", "0", "0", "6", "4", "4">>

L_old_file == <<"-", "-", "-", " ", "a", "/", "x", ".", "p", "y">>

L_new_file == <<"+", "+", "+", " ", "b", "/", "x", ".", "p", "y">>

\* the extended header lines git writes after the diff --git line
HeaderLines ==
    { T_new_file_mode \o <<" ", "1">>, T_deleted_file_mode \o <<" ", "1">>,
      T_minus3 \o T_dev_null, L_old_file, T_plus3 \o T_dev_null, L_new_file,
      L_index, T_binary_files \o <<" ", "d", "i", "f", "f", "e", "r">> }

L_hunk_counts == <<"@", "@", " ", "-", "1", ",", "2", " ", "+", "3", ",", "2", " ", "@", "@">>

L_hunk_section ==
    << "@", "@", " ", "-", "1", "0", " ", "+", "1", "2", " ", "@", "@", " ", "d", "e", "f",
       " ", "f" >>

L_hunk_bad == <<"@", "@", " ", "-", "a", " ", "+", "b", " ", "@", "@">>

HunkHeaders == {L_hunk_counts, L_hunk_section, L_hunk_bad}

\* the lines of a hunk: added, removed, context, the no-newline marker, an
\* empty line, and a line no rule takes
HunkLines ==
    { <<"+", "a">>, <<"-", "b">>, <<" ", "c">>, T_no_newline, <<>>, <<"~">> }

\* one file: the diff --git line, up to n header lines, then nothing or a hunk
HeaderTexts(n) ==
    {<<L_diff>> \o hs \o tl :
        hs \in [1..n -> HeaderLines], tl \in {<<>>, <<L_hunk_section, <<"+", "a">>>>}}

\* one file: the usual header lines, a hunk header and n lines behind it
HunkTexts(n) ==
    {<<L_diff, L_old_file, L_new_file, hh>> \o ls :
        hh \in HunkHeaders, ls \in [1..n -> HunkLines]}

\* other texts: nothing, text without a diff, a diff --git line without the
\* two paths, with empty paths, a generated path, two files, two hunks
OtherTexts ==
    { <<>>, <<<<>>>>, <<<<"~">>, <<>>>>, <<L_diff_nopaths, L_hunk_counts, <<"+", "a">>>>,
      <<L_diff_empty, L_hunk_counts, <<"+", "a">>>>,
      <<L_diff_vendor, L_index, L_hunk_counts, <<"-", "b">>, <<>>>>,
      <<<<"~">>, L_diff, L_hunk_counts, <<" ", "c">>, <<"+", "a">>,
        L_diff_vendor, T_deleted_file_mode, L_hunk_section, <<"-", "b">>, <<>>>>,
      <<L_diff, L_hunk_counts, <<"+", "a">>, <<>>, <<" ", "c">>, L_hunk_section, <<"-", "b">>,
        T_no_newline, <<"+", "a">>, <<>>>> }

ParseInit ==
    /\ pc = "parse_start"
    /\ \/ \E n \in 0..MaxHeader : diff_lines \in HeaderTexts(n)
       \/ \E n \in 0..MaxHunkLines : diff_lines \in HunkTexts(n)
       \/ diff_lines \in OtherTexts
    /\ parsed = <<>>
    /\ line_idx = 0
    /\ cur_file = <<>>
    /\ cur_hunk = <<>>
    /\ hunk_at = <<>>
    /\ IdleSig
    /\ IdleMatch
    /\ IdleClassify
    /\ IdlePipe
    /\ IdleSum
    /\ IdleTools

\* file_diffs = parse_diff(diff_text)
ParseDiff ==
    /\ pc = "parse_start"
    /\ parsed' = parse_diff(diff_lines)
    /\ pc' = "parse_done"
    /\ UNCHANGED <<diff_lines, line_idx, cur_file, cur_hunk, hunk_at,
                   sigVars, matchVars, classifyVars, pipeVars, sumVars, toolVars>>

ParseNext == ParseDiff

SpecParse == ParseInit /\ [][ParseNext]_vars

-----------------------------------------------------------------------------
(* parse_diff step by step: one action per iteration of each of its loops.  *)
(* line_idx is the code's i, counted from 1.                                *)

\* the texts of the step-by-step run: two files, the first with up to n lines
\* before its first well-formed hunk header, among them a malformed hunk
\* header and a Binary files line
StepTexts(n) ==
    {<<L_diff>> \o hs \o <<L_hunk_counts, <<"-", "b">>, L_diff_vendor, L_hunk_section,
                            <<"+", "a">>>> :
        hs \in [1..n -> {L_hunk_bad, L_old_file,
                         T_binary_files \o <<" ", "d", "i", "f", "f", "e", "r">>}]}

StepInit ==
    /\ pc = "parse_files"
    /\ \/ \E n \in 0..MaxHeader : diff_lines \in StepTexts(n)
       \/ diff_lines \in HunkTexts(0) \cup HunkTexts(1)
       \/ diff_lines \in OtherTexts
    /\ parsed = <<>>
    /\ line_idx = 1
    /\ cur_file = <<>>
    /\ cur_hunk = <<>>
    /\ hunk_at = [k \in DOMAIN diff_lines |-> HunkMatch(diff_lines[k])]
    /\ IdleSig
    /\ IdleMatch
    /\ IdleClassify
    /\ IdlePipe
    /\ IdleSum
    /\ IdleTools

\* the FileDiff of the file being read
CurrentFileDiff ==
    ParsedFileDiff(cur_file.old_path, cur_file.new_path, cur_file.change_type,
                   cur_file.is_binary, is_generated(FdPath(cur_file)), cur_file.hunks)

\* one iteration of the loop over the files: a line that is no diff --git
\* header is passed over, a header starts a file
StepFile ==
    /\ pc = "parse_files"
    /\ line_idx <= Len(diff_lines)
    /\ LET line == diff_lines[line_idx]
       IN  IF ~StartsWith(line, T_diff_git) \/ IsNone(DiffGitMatch(line))
           THEN /\ pc' = "parse_files"
                /\ UNCHANGED cur_file
           ELSE /\ pc' = "parse_header"
                /\ cur_file' = [old_path |-> Some(Get(DiffGitMatch(line))[1]),
                                new_path |-> Some(Get(DiffGitMatch(line))[2]),
                                is_binary |-> FALSE, change_type |-> "modified",
                                hunks |-> <<>>]
    /\ line_idx' = line_idx + 1
    /\ UNCHANGED <<diff_lines, parsed, cur_hunk, hunk_at,
                   sigVars, matchVars, classifyVars, pipeVars, sumVars, toolVars>>

\* the loop over the files ends: return files
FinishParse ==
    /\ pc = "parse_files"
    /\ line_idx > Len(diff_lines)
    /\ pc' = "parse_done"
    /\ UNCHANGED <<parseVars, sigVars, matchVars, classifyVars, pipeVars, sumVars, toolVars>>

\* one iteration of the loop over the extended header lines, or its end: a
\* binary file is appended at once, another file goes on to its hunks
StepHeader ==
    /\ pc = "parse_header"
    /\ LET ended == line_idx > Len(diff_lines) \/ StartsWith(diff_lines[line_idx], T_diff_git)
           hdr == diff_lines[line_idx]
       IN  IF ended \/ StartsWith(hdr, T_at2)
           THEN /\ pc' = "parse_hunks"
                /\ UNCHANGED <<line_idx, cur_file, parsed>>
           ELSE IF StartsWith(hdr, T_binary_files)
           THEN /\ pc' = "parse_files"
                /\ line_idx' = line_idx + 1
                /\ cur_file' = [cur_file EXCEPT !.is_binary = TRUE]
                /\ parsed' = Append(parsed,
                                    ParsedFileDiff(cur_file.old_path, cur_file.new_path,
                                                   cur_file.change_type, TRUE,
                                                   is_generated(FdPath(cur_file)), <<>>))
           ELSE /\ pc' = "parse_header"
                /\ line_idx' = line_idx + 1
                /\ UNCHANGED parsed
                /\ cur_file' =
                      IF StartsWith(hdr, T_new_file_mode)
                      THEN [cur_file EXCEPT !.change_type = "added", !.old_path = None]
                      ELSE IF StartsWith(hdr, T_deleted_file_mode)
                      THEN [cur_file EXCEPT !.change_type = "removed", !.new_path = None]
                      ELSE IF hdr = T_minus3 \o T_dev_null
                      THEN [cur_file EXCEPT !.old_path = None, !.change_type = "added"]
                      ELSE IF ~StartsWith(hdr, T_minus3) /\ hdr = T_plus3 \o T_dev_null
                      THEN [cur_file EXCEPT !.new_path = None, !.change_type = "removed"]
                      ELSE cur_file
    /\ UNCHANGED <<diff_lines, cur_hunk, hunk_at,
                   sigVars, matchVars, classifyVars, pipeVars, sumVars, toolVars>>

\* one iteration of the loop over the hunks of the file, or its end: a line
\* that matches the hunk header grammar starts a hunk, any other line is
\* passed over; at the end the file is appended
StepHunk ==
    /\ pc = "parse_hunks"
    /\ IF line_idx > Len(diff_lines) \/ StartsWith(diff_lines[line_idx], T_diff_git)
       THEN /\ pc' = "parse_files"
            /\ parsed' = Append(parsed, CurrentFileDiff)
            /\ UNCHANGED <<line_idx, cur_hunk>>
       ELSE /\ line_idx' = line_idx + 1
            /\ UNCHANGED parsed
            /\ IF StartsWith(diff_lines[line_idx], T_at2) /\ ~IsNone(hunk_at[line_idx])
               THEN /\ pc' = "parse_lines"
                    /\ cur_hunk' = [header |-> Get(hunk_at[line_idx]),
                                    old_ln |-> Get(hunk_at[line_idx]).old_start,
                                    new_ln |-> Get(hunk_at[line_idx]).new_start,
                                    hunk_lines |-> <<>>]
               ELSE /\ pc' = "parse_hunks"
                    /\ UNCHANGED cur_hunk
    /\ UNCHANGED <<diff_lines, cur_file, hunk_at,
                   sigVars, matchVars, classifyVars, pipeVars, sumVars, toolVars>>

\* one iteration of the loop over the lines of the hunk, or its end: at the
\* end the hunk is appended to the file
StepLine ==
    /\ pc = "parse_lines"
    /\ LET ended == \/ line_idx > Len(diff_lines)
                    \/ StartsWith(diff_lines[line_idx], T_diff_git)
                    \/ StartsWith(diff_lines[line_idx], T_at2)
           dl == diff_lines[line_idx]
           closed == [cur_file EXCEPT
                         !.hunks = Append(@, DiffHunk(cur_hunk.header, cur_hunk.hunk_lines))]
       IN  IF ended
           THEN /\ pc' = "parse_hunks"
                /\ cur_file' = closed
                /\ UNCHANGED <<line_idx, cur_hunk>>
           ELSE /\ line_idx' = line_idx + 1
                /\ IF \E ch \in {"+", "-", " "} : StartsWith(dl, <<ch>>)
                   THEN /\ cur_hunk' = TakeLine(cur_hunk, dl)
                        /\ pc' = "parse_lines"
                        /\ UNCHANGED cur_file
                   ELSE IF dl = <<>> /\ ~StartsWith(dl, T_no_newline)
                   THEN IF line_idx + 1 <= Len(diff_lines)
                           /\ ContinuesDiff(diff_lines[line_idx + 1])
                        THEN /\ cur_hunk' = TakeLine(cur_hunk, dl)
                             /\ pc' = "parse_lines"
                             /\ UNCHANGED cur_file
                        ELSE /\ pc' = "parse_hunks"
                             /\ cur_file' = closed
                             /\ UNCHANGED cur_hunk
                   ELSE /\ pc' = "parse_lines"
                        /\ UNCHANGED <<cur_file, cur_hunk>>
    /\ UNCHANGED <<diff_lines, parsed, hunk_at,
                   sigVars, matchVars, classifyVars, pipeVars, sumVars, toolVars>>

StepNext == StepFile \/ FinishParse \/ StepHeader \/ StepHunk \/ StepLine

\* the loops run in one thread: a loop that can make a step makes it
SpecParseSteps == StepInit /\ [][StepNext]_vars /\ WF_vars(StepNext)

-----------------------------------------------------------------------------
(* engine/deps.py: find_references.  The source of a file is the sequence   *)
(* of its lines, a line the sequence of the names that occur in it, each    *)
(* an identifier in an import, an identifier elsewhere ("call"), or text    *)
(* that is no identifier node (a comment, a part of a longer name).         *)

Reference(file_path, line, symbol_name, context, source_line) ==
    [file_path |-> file_path, line |-> line, symbol_name |-> symbol_name,
     context |-> context, source_line |-> source_line]

Token(name, kind) == [name |-> name, kind |-> kind]

\* _scan_file_for_symbols: the walk meets the identifier nodes in the order
\* of the text; (name, line, ctx, src_line) for each name of symbol_names
RECURSIVE _scan_file_for_symbols(_, _, _)
_scan_file_for_symbols(source, symbol_names, row) ==
    IF row > Len(source) THEN <<>>
    ELSE LET ids == SelectSeq(source[row],
                              LAMBDA t : t.kind # "text" /\ t.name \in symbol_names)
         IN  [k \in DOMAIN ids |-> <<ids[k].name, row, ids[k].kind, source[row]>>]
             \o _scan_file_for_symbols(source, symbol_names, row + 1)

\* the globs handed to git grep
GrepGlobs ==
    { <<".", "p", "y">>, <<".", "t", "s">>, <<".", "j", "s">>, <<".", "g", "o">>,
      <<".", "t", "s", "x">>, <<".", "j", "s", "x">> }

\* git grep -l symbol ref -- globs: one line "ref:path" for each file of the
\* globs whose text holds the symbol
GrepOutput(listed, symbol, ref) ==
    {ref \o <<":">> \o listed[i].path : i \in
        {i \in DOMAIN listed :
            /\ SplitExt(listed[i].path) \in GrepGlobs
            /\ ~IsNone(listed[i].content)
            /\ \E row \in DOMAIN Get(listed[i].content) :
                  \E k \in DOMAIN Get(listed[i].content)[row] :
                      ContainsText(Get(listed[i].content)[row][k].name, symbol)}}

\* _git_grep_files: line.split(":", 1)[1] of every line of every symbol
_git_grep_files(listed, symbols, ref) ==
    {IF Contains(line, ":") THEN SplitRest(line, ":") ELSE line :
        line \in UNION {GrepOutput(listed, symbol, ref) : symbol \in symbols}}

\* a slip: the fallback list keeps the files of the diff
Mut_FilesToScan(listed, candidate_files, changed) ==
    IF candidate_files # {}
    THEN SortedStrs(candidate_files \ changed)
    ELSE [i \in DOMAIN listed |-> listed[i].path]

\* files_to_scan: the candidates of git grep, or every file listed at the ref
FilesToScan(listed, candidate_files, changed) ==
    IF candidate_files # {}
    THEN SortedStrs(candidate_files \ changed)
    ELSE SelectSeq([i \in DOMAIN listed |-> listed[i].path], LAMBDA f : f \notin changed)

\* _get_file_content(ref, path): None when git show fails
_get_file_content(listed, path) ==
    IF \E i \in DOMAIN listed : listed[i].path = path
    THEN listed[CHOOSE i \in DOMAIN listed : listed[i].path = path].content
    ELSE None

\* the key of the final sort: (file_path, line)
RefKeyLess(a, b) ==
    \/ StrLess(a.file_path, b.file_path)
    \/ a.file_path = b.file_path /\ a.line < b.line

\* list.sort is stable: r goes behind the entries whose key is not greater
RECURSIVE InsertRef(_, _)
InsertRef(sorted, r) ==
    IF sorted = <<>> THEN <<r>>
    ELSE IF RefKeyLess(r, Head(sorted)) THEN <<r>> \o sorted
    ELSE <<Head(sorted)>> \o InsertRef(Tail(sorted), r)

RECURSIVE SortRefs(_, _)
SortRefs(refs, sorted) ==
    IF refs = <<>> THEN sorted ELSE SortRefs(Tail(refs), InsertRef(sorted, Head(refs)))

-----------------------------------------------------------------------------
(* The reference scan run: find_references on a repository of two source    *)
(* files and a file of no known language, for up to MaxNames names.         *)

MaxNames == 2

T_f == <<"f">>

T_fg == <<"f", "g">>

RefPaths == <<PyPath(1), <<"b", "/">> \o PyPath(1), MdPath(3)>>

\* what a source file may hold
RefSources ==
    { None,
      Some(<<>>),
      Some(<< <<Token(T_f, "import")>>, <<Token(T_g, "call"), Token(T_f, "call")>> >>),
      Some(<< <<Token(T_g, "text")>>, <<Token(T_fg, "call")>>, <<Token(T_g, "call")>> >>) }

RepoFile(path, content) == [path |-> path, content |-> content]

RECURSIVE NameLists(_)
NameLists(n) ==
    IF n = 0 THEN {<<>>}
    ELSE NameLists(n - 1) \cup {Append(l, x) : l \in NameLists(n - 1), x \in {T_f, T_g}}

DepsInit ==
    /\ pc = "deps_start"
    /\ \E ca \in RefSources, cb \in RefSources :
          repo = << RepoFile(RefPaths[1], ca), RepoFile(RefPaths[2], cb),
                    RepoFile(RefPaths[3], Some(<< <<Token(T_f, "call")>> >>)) >>
    /\ changed_symbols \in NameLists(MaxNames)
    /\ changed_files \in SUBSET {RefPaths[1], RefPaths[2], PyPath(4)}
    /\ grep_fails \in BOOLEAN
    /\ files_to_scan = <<>>
    /\ references = <<>>
    /\ IdleSig
    /\ IdleMatch
    /\ IdleClassify
    /\ IdlePipe
    /\ IdleSum
    /\ IdleParse
    /\ IdleCli

\* if not changed_symbols: return []
ReturnNoReferences ==
    /\ pc = "deps_start"
    /\ changed_symbols = <<>>
    /\ pc' = "deps_done"
    /\ UNCHANGED <<depsVars, sigVars, matchVars, classifyVars, pipeVars, sumVars, parseVars,
                   cliVars>>

\* candidate_files = _git_grep_files(...), then files_to_scan
GitGrep ==
    /\ pc = "deps_start"
    /\ changed_symbols # <<>>
    /\ LET candidate_files ==
               IF grep_fails THEN {}
               ELSE _git_grep_files(repo, Range(changed_symbols), <<"H", "E", "A", "D">>)
       IN  files_to_scan' = FilesToScan(repo, candidate_files, changed_files)
    /\ pc' = "deps_scan"
    /\ UNCHANGED <<repo, changed_symbols, changed_files, grep_fails, references,
                   sigVars, matchVars, classifyVars, pipeVars, sumVars, parseVars, cliVars>>

\* one iteration of the loop over files_to_scan
ScanFile ==
    /\ pc = "deps_scan"
    /\ files_to_scan # <<>>
    /\ LET file_path == Head(files_to_scan)
           source == _get_file_content(repo, file_path)
       IN  references' =
               IF IsNone(detect_language(file_path)) \/ IsNone(source) THEN references
               ELSE LET hits == _scan_file_for_symbols(Get(source), Range(changed_symbols), 1)
                    IN  references
                        \o [k \in DOMAIN hits |->
                               Reference(file_path, hits[k][2], hits[k][1], hits[k][3],
                                         hits[k][4])]
    /\ files_to_scan' = Tail(files_to_scan)
    /\ UNCHANGED <<pc, repo, changed_symbols, changed_files, grep_fails,
                   sigVars, matchVars, classifyVars, pipeVars, sumVars, parseVars, cliVars>>

\* references.sort(key=lambda r: (r.file_path, r.line)); return references
SortReferences ==
    /\ pc = "deps_scan"
    /\ files_to_scan = <<>>
    /\ references' = SortRefs(references, <<>>)
    /\ pc' = "deps_done"
    /\ UNCHANGED <<repo, changed_symbols, changed_files, grep_fails, files_to_scan,
                   sigVars, matchVars, classifyVars, pipeVars, sumVars, parseVars, cliVars>>

DepsNext == ReturnNoReferences \/ GitGrep \/ ScanFile \/ SortReferences

SpecDeps == DepsInit /\ [][DepsNext]_vars

-----------------------------------------------------------------------------
(* cli.py: the review command.  An echoed text is the sequence of its       *)
(* parts; the JSON document is the record json.dumps is given.              *)

EXIT_SUCCESS == 0

EXIT_FINDINGS == 1

EXIT_ERROR == 2

\* bool(x) of an optional text
Truthy(text) == ~IsNone(text) /\ Get(text) # <<>>

\* the kinds for which kind.endswith("_removed") holds
RemovedKinds == {"function_removed", "class_removed"}

\* a slip: the test for moved symbols is left out
Mut_IsHighSignal(sc) ==
    \/ Truthy(sc.before_signature) /\ Truthy(sc.after_signature)
    \/ sc.breaking
    \/ sc.kind \in RemovedKinds

\* the test of _has_high_signal_changes and of the two formatters
IsHighSignal(sc) ==
    \/ Truthy(sc.before_signature) /\ Truthy(sc.after_signature)
    \/ sc.breaking
    \/ sc.kind \in RemovedKinds
    \/ sc.kind = "moved"

_has_high_signal_changes(out_files) ==
    \E i \in DOMAIN out_files : \E k \in DOMAIN out_files[i].changes :
        IsHighSignal(out_files[i].changes[k])

_categorize_change(sc) ==
    IF sc.kind \in RemovedKinds THEN "SYMBOL REMOVED"
    ELSE IF sc.kind = "moved" THEN "SYMBOL MOVED"
    ELSE IF Truthy(sc.before_signature) /\ Truthy(sc.after_signature)
    THEN classify_signature_change(Get(sc.before_signature), Get(sc.after_signature))
    ELSE "CHANGED"

\* the (path, change) pairs both formatters report
ReviewItems(out_files) ==
    SelectSeq(AllPairs(out_files), LAMBDA p : IsHighSignal(p[2]))

\* _format_context_output: "" without items, else the heading and, for each
\* item, its category, name and path
_format_context_output(out_files) ==
    LET items == ReviewItems(out_files)
    IN  IF items = <<>> THEN <<>>
        ELSE <<[text |-> "DiffGuard: {n} change(s) need review", n |-> Len(items)]>>
             \o [k \in DOMAIN items |->
                    [text |-> "{idx}. {category}: {sig_text}", n |-> k,
                     category |-> _categorize_change(items[k][2]),
                     name |-> items[k][2].name, path |-> items[k][1]]]

\* _build_json_output: the document's findings and stats
_build_json_output(out_files) ==
    LET items == ReviewItems(out_files)
    IN  [findings |-> [k \in DOMAIN items |->
                          [category |-> _categorize_change(items[k][2]),
                           symbol |-> items[k][2].name, file |-> items[k][1]]],
         files_analyzed |-> Len(out_files),
         symbols_changed |-> Len(AllPairs(out_files)),
         silence_reason |-> IF items # <<>> THEN None ELSE Some("no high-signal changes")]

\* the document echoed for an empty diff
EmptyDiffJson ==
    [findings |-> <<>>, files_analyzed |-> 0, symbols_changed |-> 0,
     silence_reason |-> Some("no changes in diff")]

-----------------------------------------------------------------------------
(* The review run: _run_review for every choice of the options, with a      *)
(* diff that is empty, blank or not, pipeline outputs of one file with up   *)
(* to MaxFindings changes, and an exception at any call.                    *)

MaxFindings == 2

ReviewArgs == [fmt : {"text", "json"}, verbose : BOOLEAN, deps : BOOLEAN]

DiffTexts == {<<>>, <<" ", "\n">>, <<"d", "i", "f", "f", "\n">>}

ReviewOutputs ==
    {<<>>, <<UnsupportedFile(P_n_md)>>}
    \cup UNION {{<<PythonFile(P_a, cs)>> : cs \in [1..n -> SomeChanges]} : n \in 1..MaxFindings}

\* what find_references may return for a symbol name
ReviewRefs(name) ==
    {<<>>, <<Reference(P_b, 1, name, "call", <<>>)>>}

CliInit ==
    /\ pc = "cli_start"
    /\ args \in ReviewArgs
    /\ diff_text = <<>>
    /\ output = <<>>
    /\ dep_refs = <<>>
    /\ stdout = <<>>
    /\ stderr = <<>>
    /\ exit_code = <<>>
    /\ IdleSig
    /\ IdleMatch
    /\ IdleClassify
    /\ IdlePipe
    /\ IdleSum
    /\ IdleParse
    /\ IdleDeps

\* diff_text = get_diff(ref_range, repo_path=repo)
GetDiff ==
    /\ pc = "cli_start"
    /\ diff_text' \in DiffTexts
    /\ pc' = "cli_diffed"
    /\ UNCHANGED <<args, output, dep_refs, stdout, stderr, exit_code,
                   sigVars, matchVars, classifyVars, pipeVars, sumVars, parseVars, depsVars>>

\* if not diff_text.strip(): ... sys.exit(EXIT_SUCCESS)
EmptyDiff ==
    /\ pc = "cli_diffed"
    /\ Strip(diff_text) = <<>>
    /\ IF args.fmt = "json"
       THEN stdout' = Append(stdout, EmptyDiffJson) /\ UNCHANGED stderr
       ELSE stderr' = Append(stderr, "No changes found.") /\ UNCHANGED stdout
    /\ exit_code' = Some(EXIT_SUCCESS)
    /\ pc' = "cli_exit"
    /\ UNCHANGED <<args, diff_text, output, dep_refs,
                   sigVars, matchVars, classifyVars, pipeVars, sumVars, parseVars, depsVars>>

\* output = run_pipeline(diff_text, ref_range, content_provider)
RunPipeline ==
    /\ pc = "cli_diffed"
    /\ Strip(diff_text) # <<>>
    /\ output' \in ReviewOutputs
    /\ pc' = "cli_piped"
    /\ UNCHANGED <<args, diff_text, dep_refs, stdout, stderr, exit_code,
                   sigVars, matchVars, classifyVars, pipeVars, sumVars, parseVars, depsVars>>

\* dep_refs: None, or what find_references returns for the changed names
FindReferences ==
    /\ pc = "cli_piped"
    /\ IF args.deps /\ AllPairs(output) # <<>>
       THEN \E refs \in ReviewRefs(AllPairs(output)[1][2].name) : dep_refs' = Some(refs)
       ELSE dep_refs' = None
    /\ pc' = "cli_report"
    /\ UNCHANGED <<args, diff_text, output, stdout, stderr, exit_code,
                   sigVars, matchVars, classifyVars, pipeVars, sumVars, parseVars, depsVars>>

\* fmt == "json": echo the document, exit with 1 or 0
ReportJson ==
    /\ pc = "cli_report"
    /\ args.fmt = "json"
    /\ stdout' = Append(stdout, _build_json_output(output))
    /\ exit_code' = Some(IF _has_high_signal_changes(output) THEN EXIT_FINDINGS
                         ELSE EXIT_SUCCESS)
    /\ pc' = "cli_exit"
    /\ UNCHANGED <<args, diff_text, output, dep_refs, stderr,
                   sigVars, matchVars, classifyVars, pipeVars, sumVars, parseVars, depsVars>>

\* text format
ReportText ==
    /\ pc = "cli_report"
    /\ args.fmt # "json"
    /\ LET has_findings == _has_high_signal_changes(output)
           text == _format_context_output(output)
       IN  IF ~args.verbose /\ ~has_findings
           THEN exit_code' = Some(EXIT_SUCCESS) /\ UNCHANGED stdout
           ELSE IF text # <<>>
           THEN stdout' = Append(stdout, text) /\ exit_code' = Some(EXIT_FINDINGS)
           ELSE exit_code' = Some(EXIT_SUCCESS) /\ UNCHANGED stdout
    /\ pc' = "cli_exit"
    /\ UNCHANGED <<args, diff_text, output, dep_refs, stderr,
                   sigVars, matchVars, classifyVars, pipeVars, sumVars, parseVars, depsVars>>

\* an exception in get_diff, run_pipeline, find_references or a formatter
Raise ==
    /\ pc \in {"cli_start", "cli_piped", "cli_report"}
          \/ (pc = "cli_diffed" /\ Strip(diff_text) # <<>>)
    /\ pc' = "cli_except"
    /\ UNCHANGED <<cliVars,
                   sigVars, matchVars, classifyVars, pipeVars, sumVars, parseVars, depsVars>>

\* except Exception: echo the error, sys.exit(EXIT_ERROR)
HandleError ==
    /\ pc = "cli_except"
    /\ stderr' = Append(stderr, "Error: {exc}")
    /\ exit_code' = Some(EXIT_ERROR)
    /\ pc' = "cli_exit"
    /\ UNCHANGED <<args, diff_text, output, dep_refs, stdout,
                   sigVars, matchVars, classifyVars, pipeVars, sumVars, parseVars, depsVars>>

CliNext ==
    GetDiff \/ EmptyDiff \/ RunPipeline \/ FindReferences \/ ReportJson \/ ReportText
        \/ Raise \/ HandleError

SpecCli == CliInit /\ [][CliNext]_vars

-----------------------------------------------------------------------------
(* Claims about the signature run.                                          *)

\* the parameters a caller passes: the receiver is not one of them
CallerPos(node) == SelectSeq(node.pos, LAMBDA p : p.name # T_self)

SameNameType(p, q) == p.name = q.name /\ p.type = q.type

BothDefaultsDiffer(p, q) ==
    ~IsNone(p.default) /\ ~IsNone(q.default) /\ p.default # q.default

\* the breaking-change rule of the specification, on the declarations themselves
RuleBreaking(old, new) ==
    LET op == CallerPos(old)
        np == CallerPos(new)
        common == 1..Min(Len(op), Len(np))
        kwBoth == ~IsNone(old.kw) /\ ~IsNone(new.kw) /\ Get(old.kw).name = Get(new.kw).name
    IN  \/ Len(np) < Len(op)
        \/ \E i \in common : ~SameNameType(op[i], np[i])
        \/ \E i \in common : BothDefaultsDiffer(op[i], np[i])
        \/ kwBoth /\ BothDefaultsDiffer(Get(old.kw), Get(new.kw))
        \/ \E i \in (Len(op) + 1)..Len(np) : IsNone(np[i].default)
        \/ ~IsNone(old.kw) /\ ~kwBoth
        \/ kwBoth /\ Get(old.kw).type # Get(new.kw).type
        \/ ~IsNone(new.kw) /\ ~kwBoth /\ IsNone(Get(new.kw).default)
        \/ ~IsNone(old.return_type) /\ ~IsNone(new.return_type)
           /\ old.return_type # new.return_type

\* C3: for Python-style signatures is_breaking_change(old, new) is true exactly when
\* one of the listed rules applies: positional count decreased, a positional
\* parameter's name/type changed at its position, a default present on both sides
\* changed, a positional or keyword-only parameter was added without a default, a
\* keyword-only parameter was removed or changed its name/type, or a return type
\* present on both sides changed.  Everything else is non-breaking.
C3_BreakingIffRule ==
    pc = "sig_done" => (Get(breaking) <=> RuleBreaking(old_node, new_node))

\* a non-breaking edit that adds a defaulted keyword-only parameter, a default and a
\* return annotation at once
C3_Witness ==
    /\ pc = "sig_done"
    /\ ~Get(breaking)
    /\ IsNone(old_node.kw) /\ ~IsNone(new_node.kw)
    /\ IsNone(old_node.return_type) /\ ~IsNone(new_node.return_type)
    /\ Len(old_node.pos) = 1 /\ Len(new_node.pos) = 2

-----------------------------------------------------------------------------
(* Claims about the matching run.                                           *)

OldSideCount(x) == Cardinality({j \in DOMAIN results : results[j].old = Some(x)})

NewSideCount(x) == Cardinality({j \in DOMAIN results : results[j].new = Some(x)})

\* C1: match_symbols returns entries such that every old symbol is the old side of
\* exactly one entry, every new symbol the new side of exactly one entry, no entry
\* has a side that is not an input symbol, and no entry has both sides absent.
C1_MatchPartition ==
    pc = "match_done" =>
        /\ \A i \in DOMAIN old_symbols : OldSideCount(old_symbols[i]) = 1
        /\ \A i \in DOMAIN new_symbols : NewSideCount(new_symbols[i]) = 1
        /\ \A j \in DOMAIN results :
              /\ ~(IsNone(results[j].old) /\ IsNone(results[j].new))
              /\ ~IsNone(results[j].old) => Get(results[j].old) \in Range(old_symbols)
              /\ ~IsNone(results[j].new) => Get(results[j].new) \in Range(new_symbols)

\* several symbols under one key on both sides, with a signature pair, a positional
\* pair and a leftover
C1_Witness ==
    /\ pc = "match_done"
    /\ Len(old_symbols) = 3 /\ Len(new_symbols) = 2
    /\ \A i \in DOMAIN old_symbols : _key(old_symbols[i]) = _key(old_symbols[1])
    /\ \A i \in DOMAIN new_symbols : _key(new_symbols[i]) = _key(old_symbols[1])
    /\ \E j \in DOMAIN results :
          /\ ~IsNone(results[j].old) /\ ~IsNone(results[j].new)
          /\ Get(results[j].old).signature # Get(results[j].new).signature
    /\ \E j \in DOMAIN results :
          /\ ~IsNone(results[j].old) /\ ~IsNone(results[j].new)
          /\ Get(results[j].old).signature = Get(results[j].new).signature
    /\ \E j \in DOMAIN results : IsNone(results[j].new)

-----------------------------------------------------------------------------
(* Claims about the classification run.                                     *)


KindIs(c, k) == ~IsNone(c) /\ Get(c).kind = k

\* the kind the claim gives a symbol of this kind with this suffix
PrefixedKind(kind, suffix) ==
    IF kind = "class" THEN "class_" \o suffix ELSE "function_" \o suffix

\* the decision list of the claim, for entry m and answer c
C2_Decision(m, c) ==
    IF ~IsNone(m.file_from) /\ BothSides(m)
    THEN KindIs(c, "moved") /\ Get(c).file_from = m.file_from
    ELSE IF IsNone(m.old)
    THEN KindIs(c, PrefixedKind(Get(m.new).kind, "added"))
    ELSE IF IsNone(m.new)
    THEN KindIs(c, PrefixedKind(Get(m.old).kind, "removed"))
    ELSE IF Get(m.old).body_hash = Get(m.new).body_hash
    THEN IsNone(c)
    ELSE IF Get(m.old).signature # Get(m.new).signature
    THEN /\ KindIs(c, "signature_changed")
         /\ Get(c).before_signature = Some(Get(m.old).signature)
         /\ Get(c).after_signature = Some(Get(m.new).signature)
         /\ Get(c).breaking
               = is_breaking_change(Get(m.old).signature, Get(m.new).signature)
    ELSE KindIs(c, PrefixedKind(Get(m.new).kind, "modified"))

\* C2: for each MatchedSymbol the classifier applies the decision list in order
\* (moved; added; removed; equal body hash: no record; signature differs:
\* signature_changed with breaking = is_breaking_change; otherwise modified), the
\* prefix is class for classes and function for functions and methods, and only
\* signature_changed records can be breaking.
C2_DecisionList ==
    pc = "classify_done" =>
        /\ Len(classified) = Len(matches)
        /\ \A i \in DOMAIN matches :
              /\ C2_Decision(matches[i], classified[i])
              /\ ~IsNone(classified[i]) /\ Get(classified[i]).breaking
                    => Get(classified[i]).kind = "signature_changed"
        /\ changes = Present(classified)

\* a batch holding a breaking signature change of a method and an entry the
\* classifier drops
C2_Witness ==
    /\ pc = "classify_done"
    /\ Len(matches) = 2
    /\ KindIs(classified[1], "signature_changed")
    /\ Get(classified[1]).breaking
    /\ Get(matches[1].old).kind = "method"
    /\ IsNone(classified[2])
    /\ Get(matches[2].old).signature # Get(matches[2].new).signature

-----------------------------------------------------------------------------
(* Claims about the pipeline run.                                           *)

\* the cross-file pass has run (or was skipped) and the output is final
PipeDone == pc = "pipe_done"

\* the moves are known: match_cross_file has returned
MovesKnown == pc \in {"pipe_apply", "pipe_done"} /\ unmatched_old # <<>> /\ unmatched_new # <<>>

\* the two symbols agree in signature text or in body hash
Agree(o, n) == o.signature = n.signature \/ o.body_hash = n.body_hash

\* a new symbol of another file, with the key of o, that qualifies as its move target
Qualifies(old_entry, new_entry) ==
    /\ _key(old_entry[2]) = _key(new_entry[2])
    /\ old_entry[1] # new_entry[1]
    /\ Agree(old_entry[2], new_entry[2])

\* the change list of the file at path in the output, empty when there is none
ChangesAt(path) ==
    LET k == FcIndex(file_changes, path, Len(file_changes))
    IN  IF k = 0 THEN <<>> ELSE file_changes[k].changes

\* the record _classify_one writes for a symbol that is only on one side
RemovedRecord(sym) == Get(_classify_one(MatchedSymbol(Some(sym), None, None, None)))

AddedRecord(sym) == Get(_classify_one(MatchedSymbol(None, Some(sym), None, None)))

MovedRecord(m) == Get(_classify_one(m))

\* how many entries of the list equal r
Count(list, r) == Cardinality({i \in DOMAIN list : list[i] = r})

\* C5 (as the claim states it): in the final output every detected move has
\* exactly one moved record, in the destination file's list and in no other,
\* and neither the source nor the destination list still holds the removed
\* record of its old symbol or the added record of its new symbol.
C5_OneMovedRecordPerMove ==
    PipeDone =>
        \A j \in DOMAIN moves :
            LET m == moves[j]
                A == Get(m.file_from)
                B == Get(m.file_to)
            IN  /\ MovedRecord(m).file_from = Some(A)
                /\ Count(ChangesAt(B), MovedRecord(m)) = 1
                /\ \A k \in DOMAIN file_changes :
                      file_changes[k].path # B
                      => Count(file_changes[k].changes, MovedRecord(m)) = 0
                /\ \A p \in {A, B} :
                      /\ RemovedRecord(Get(m.old)) \notin Range(ChangesAt(p))
                      /\ AddedRecord(Get(m.new)) \notin Range(ChangesAt(p))

\* a file of the diff whose two sides hold one declaration each, the same but for
\* the decorator lines
DecoratorOnly(fd) ==
    /\ ~ShortCircuits(fd)
    /\ ~IsNone(OldSource(fd)) /\ ~IsNone(NewSource(fd))
    /\ Len(Get(OldSource(fd))) = 1 /\ Len(Get(NewSource(fd))) = 1
    /\ LET o == Get(OldSource(fd))[1]
           n == Get(NewSource(fd))[1]
       IN  /\ o.decorators # n.decorators
           /\ [o EXCEPT !.decorators = <<>>] = [n EXCEPT !.decorators = <<>>]

\* C7 (as the claim states it): when the two versions of a symbol differ only
\* in their decorator lines, the output holds a signature_changed record for it.
C7_DecoratorChangeReported ==
    PipeDone =>
        \A i \in DOMAIN file_diffs :
            DecoratorOnly(file_diffs[i])
            => \E c \in Range(file_changes[i].changes) :
                  /\ c.kind = "signature_changed"
                  /\ c.name = Get(NewSource(file_diffs[i]))[1].name

-----------------------------------------------------------------------------
(* Claims about the classification run, continued.                          *)

-----------------------------------------------------------------------------
(* Claims about the summary run.                                            *)

\* the bucket of a change as the ranking rule names them: breaking, removed,
\* signature_changed, added, modified, moved
Bucket(c) ==
    IF c.breaking THEN 0
    ELSE CASE c.kind \in {"function_removed", "class_removed"} -> 1
           [] c.kind = "signature_changed" -> 2
           [] c.kind \in {"function_added", "class_added"} -> 3
           [] c.kind \in {"function_modified", "class_modified"} -> 4
           [] c.kind = "moved" -> 5

StrLeq(a, b) == a = b \/ StrLess(a, b)

\* the two lists hold the same entries, each as often
SameEntries(s, t) ==
    /\ Len(s) = Len(t)
    /\ \A i \in DOMAIN s : Count(s, s[i]) = Count(t, s[i])

\* C8: the ranking holds the changes of all files ordered by bucket, breaking
\* first, then removed, signature_changed, added, modified, moved; inside a
\* bucket by file path, inside a path by symbol name; so every breaking change
\* stands before every change that is not breaking.
C8_RankingOrder ==
    pc \in {"sum_tiers", "sum_done"} =>
        /\ SameEntries(sorted_changes, AllPairs(files))
        /\ \A i, j \in DOMAIN sorted_changes :
              i < j =>
                 LET p == sorted_changes[i]
                     q == sorted_changes[j]
                 IN  /\ Bucket(p[2]) <= Bucket(q[2])
                     /\ Bucket(p[2]) = Bucket(q[2]) => StrLeq(p[1], q[1])
                     /\ Bucket(p[2]) = Bucket(q[2]) /\ p[1] = q[1]
                        => StrLeq(p[2].name, q[2].name)
        /\ \A i, j \in DOMAIN sorted_changes :
              sorted_changes[i][2].breaking /\ ~sorted_changes[j][2].breaking => i < j

\* C8's case: a breaking change that comes later in the input, in a file whose
\* path sorts later, than a change that is not breaking
C8_Witness ==
    /\ pc = "sum_done"
    /\ \E i, j \in DOMAIN AllPairs(files) :
          /\ i < j
          /\ ~AllPairs(files)[i][2].breaking
          /\ AllPairs(files)[j][2].breaking
          /\ StrLess(AllPairs(files)[i][1], AllPairs(files)[j][1])

\* the item lines of the change sections
ItemTexts ==
    {"- '{name}' ({path})", "- '{name}': {before} -> {after}", "- '{name}' from {file_from}"}

\* the part of the detailed text a heading opens
ZoneAfter(zone, text) ==
    IF text = "## Breaking Changes" THEN "breaking"
    ELSE IF text = "## Test Changes" THEN "test"
    ELSE IF text = "## Skipped" THEN "skipped"
    ELSE IF text \in {"## " \o SectionHeadings[h] : h \in DOMAIN SectionHeadings}
        THEN IF zone = "test" THEN "test" ELSE "production"
    ELSE zone

\* the number of item lines of the text that stand in the wanted part
RECURSIVE ItemsIn(_, _, _)
ItemsIn(lines, zone, wanted) ==
    IF lines = <<>> THEN 0
    ELSE LET z == ZoneAfter(zone, Head(lines).text)
         IN  (IF Head(lines).text \in ItemTexts /\ z = wanted THEN 1 ELSE 0)
             + ItemsIn(Tail(lines), z, wanted)

ProdListed == ItemsIn(tiered.detailed, "production", "production")

TestListed == ItemsIn(tiered.detailed, "production", "test")

\* the changes that are not breaking, of the production files and of the test files
ProdEligible ==
    Len(SelectSeq(AllPairs(ProdFiles(files)), LAMBDA p : ~p[2].breaking))

TestEligible ==
    Len(SelectSeq(AllPairs(TestFiles(files, include_tests)), LAMBDA p : ~p[2].breaking))

\* the lines "(and N more)" of the detailed text
Trailers == SelectSeq(tiered.detailed, LAMBDA l : l.text = "(and {n} more)")

\* C9 (as the claim states it): the items listed under the production sections
\* and the Test Changes sections together are never more than the cap.
C9_ListedWithinCap ==
    pc = "sum_done" => ProdListed + TestListed <= _DETAILED_CAP

\* C9, amended: the production sections list at most the cap; the test sections
\* list at most what the production sections left of the cap, except that
\* they list up to 5 items when the production sections used the whole cap.
C9_ListedWithinCapAndTestRoom ==
    pc = "sum_done" =>
        /\ ProdListed <= _DETAILED_CAP
        /\ ProdListed < _DETAILED_CAP => ProdListed + TestListed <= _DETAILED_CAP
        /\ ProdListed = _DETAILED_CAP => TestListed <= 5

\* C9's case: the production sections are full and the test sections list 5 more
C9_Witness ==
    /\ pc = "sum_done"
    /\ include_tests
    /\ ProdListed = _DETAILED_CAP
    /\ TestListed = 5
    /\ TestEligible > 5

\* C10 (as the claim states it): the trailer is there exactly when an eligible
\* change that is not breaking is not listed, and its number is the number of
\* those changes.
C10_TrailerCountsUnlisted ==
    pc = "sum_done" =>
        LET unlisted == ProdEligible + TestEligible - (ProdListed + TestListed)
        IN  /\ Trailers # <<>> <=> unlisted > 0
            /\ Trailers # <<>> => Len(Trailers) = 1 /\ Trailers[1].n = unlisted

\* the breaking changes of the ranking, in its order
RankedBreaking == SelectSeq(sorted_changes, LAMBDA p : p[2].breaking)

RankedProduction == _all_changes_sorted(ProdFiles(files))

\* C11: when production changes exist, the oneliner names the top-ranked
\* change: the first breaking change of the ranking when there is a breaking
\* change, else the first ranked production change; it names no change that
\* is not breaking while a breaking change exists.
C11_OnelinerNamesTopRanked ==
    pc = "sum_done" /\ RankedProduction # <<>> =>
        IF RankedBreaking # <<>>
        THEN /\ tiered.oneliner.text = "BREAKING: '{name}' signature changed"
             /\ tiered.oneliner.name = RankedBreaking[1][2].name
        ELSE /\ tiered.oneliner.text = VerbOf(RankedProduction[1][2].kind) \o " '{name}'"
             /\ tiered.oneliner.name = RankedProduction[1][2].name

\* the changes of the files on a test path, and of the other files
TestPathChanges == AllChanges(TestFiles(files, TRUE))

ProductionChanges == AllChanges(ProdFiles(files))

\* a text tier names a symbol
NamedInLine(l, name) ==
    \/ l.name = name
    \/ Quoted(name) \in Range(l.list)
    \/ \E k \in BehaviouralKinds : BehaviouralItem([name |-> name, kind |-> k]) \in Range(l.list)

NamedInTiers(name) ==
    \/ NamedInLine(tiered.oneliner, name)
    \/ \E i \in DOMAIN tiered.short : NamedInLine(tiered.short[i], name)
    \/ \E i \in DOMAIN tiered.detailed : NamedInLine(tiered.detailed[i], name)

\* C12: with include_tests off no change of a test-path file is named in the
\* oneliner, the short text or the detailed text: a symbol these texts name
\* is the symbol of a production change.
C12_TestChangesNotNamed ==
    pc = "sum_done" /\ ~include_tests =>
        \A i \in DOMAIN TestPathChanges :
            NamedInTiers(TestPathChanges[i].name) =>
                \E j \in DOMAIN ProductionChanges :
                    ProductionChanges[j].name = TestPathChanges[i].name

UnsupportedFiles == SelectSeq(files, LAMBDA fc : fc.unsupported_language)

WarningTexts ==
    {"{n} files skipped (unsupported: {exts}) - review manually",
     "{n} file skipped (unsupported: {exts}) - review manually"}

IsWarningLine(l) == l.text \in WarningTexts

\* the text ends with the one warning line it holds, which gives the number
\* of unsupported files and their extensions
EndsWithOneWarning(lines) ==
    /\ lines # <<>>
    /\ IsWarningLine(lines[Len(lines)])
    /\ Len(SelectSeq(lines, IsWarningLine)) = 1
    /\ lines[Len(lines)].n = Len(UnsupportedFiles)
    /\ Range(lines[Len(lines)].list)
         = {ExtOrName(UnsupportedFiles[i].path) : i \in DOMAIN UnsupportedFiles}

\* C13: when a file of the run is flagged unsupported_language and
\* show_skipped is off, the short text and the detailed text each end with
\* exactly one warning line (count and extensions of the unsupported files)
\* and the oneliner holds no warning; otherwise no text holds a warning line.
C13_WarningWhenUnsupported ==
    pc = "sum_done" =>
        /\ ~IsWarningLine(tiered.oneliner)
        /\ IF UnsupportedFiles # <<>> /\ ~show_skipped
           THEN EndsWithOneWarning(tiered.short) /\ EndsWithOneWarning(tiered.detailed)
           ELSE /\ SelectSeq(tiered.short, IsWarningLine) = <<>>
                /\ SelectSeq(tiered.detailed, IsWarningLine) = <<>>

-----------------------------------------------------------------------------
(* Claims about the category label of a signature change.                   *)

BreakingLabels ==
    {"PARAMETER REMOVED", "PARAMETER ADDED (BREAKING)", "DEFAULT VALUE CHANGED",
     "RETURN TYPE CHANGED", "BREAKING SIGNATURE CHANGE"}

\* C14: for equal signature texts is_breaking_change is false and
\* classify_signature_change returns the label SIGNATURE CHANGED.
C14_SameTextNotBreaking ==
    pc = "sig_labelled" /\ old_signature = new_signature =>
        /\ breaking = Some(FALSE)
        /\ category = Some("SIGNATURE CHANGED")

\* C14's case: one text on both sides, with a defaulted parameter, a
\* keyword-only parameter and a return type in it
C14_Witness ==
    /\ pc = "sig_labelled"
    /\ old_signature = new_signature
    /\ \E i \in DOMAIN old_node.pos : ~IsNone(old_node.pos[i].default)
    /\ ~IsNone(old_node.kw)
    /\ ~IsNone(old_node.return_type)

\* C15: the label and the flag agree: SIGNATURE CHANGED exactly when
\* is_breaking_change is false, one of the five breaking labels exactly when
\* it is true.
C15_LabelAgreesWithFlag ==
    pc = "sig_labelled" =>
        /\ category = Some("SIGNATURE CHANGED") <=> breaking = Some(FALSE)
        /\ Get(category) \in BreakingLabels <=> breaking = Some(TRUE)

\* C15's case: a pair with a breaking label other than the generic one, and a
\* pair that differs in text and is not breaking
C15_Witness ==
    /\ pc = "sig_labelled"
    /\ old_signature # new_signature
    /\ \/ category = Some("DEFAULT VALUE CHANGED") /\ breaking = Some(TRUE)
       \/ category = Some("SIGNATURE CHANGED") /\ breaking = Some(FALSE)

\* a parameter present on both sides has a default on both, and they differ
ExistingDefaultDiffers ==
    LET op == CallerPos(old_node)
        np == CallerPos(new_node)
    IN  \/ \E i \in 1..Min(Len(op), Len(np)) :
              op[i].name = np[i].name /\ BothDefaultsDiffer(op[i], np[i])
        \/ /\ ~IsNone(old_node.kw) /\ ~IsNone(new_node.kw)
           /\ Get(old_node.kw).name = Get(new_node.kw).name
           /\ BothDefaultsDiffer(Get(old_node.kw), Get(new_node.kw))

\* C16: when a parameter present on both sides has a default on both and the
\* defaults differ, and neither PARAMETER REMOVED nor PARAMETER ADDED
\* (BREAKING) applies, the label is DEFAULT VALUE CHANGED, also next to other
\* edits that are not breaking.
C16_DefaultChangeLabelled ==
    pc = "sig_labelled" /\ ExistingDefaultDiffers
    /\ Get(category) \notin {"PARAMETER REMOVED", "PARAMETER ADDED (BREAKING)"}
        => category = Some("DEFAULT VALUE CHANGED")

-----------------------------------------------------------------------------
(* Claims about the parsing run.                                            *)

\* C17: every FileDiff parse_diff returns has old_path or new_path present,
\* so that its path is not empty, whatever header lines follow the
\* diff --git line.
C17_OnePathPresent ==
    pc = "parse_done" =>
        \A k \in DOMAIN parsed :
            /\ ~IsNone(parsed[k].old_path) \/ ~IsNone(parsed[k].new_path)
            /\ FdPath(parsed[k]) # <<>>

\* the numbers given to the lines of a hunk that carry one, in order
OldNumbers(hunk) ==
    LET numbered == SelectSeq(hunk.lines, LAMBDA l : ~IsNone(l.old_lineno))
    IN  [k \in DOMAIN numbered |-> Get(numbered[k].old_lineno)]

NewNumbers(hunk) ==
    LET numbered == SelectSeq(hunk.lines, LAMBDA l : ~IsNone(l.new_lineno))
    IN  [k \in DOMAIN numbered |-> Get(numbered[k].new_lineno)]

\* C18: in every parsed hunk the old numbers run old_start, old_start+1, ...
\* over the removed and context lines and the new numbers run new_start,
\* new_start+1, ... over the added and context lines; an added line has no
\* old number, a removed line no new number, a context line both; markers and
\* skipped lines take no number.
C18_LinesNumberedInOrder ==
    pc = "parse_done" =>
        \A k \in DOMAIN parsed : \A j \in DOMAIN parsed[k].hunks :
            LET hunk == parsed[k].hunks[j]
            IN  /\ \A n \in DOMAIN OldNumbers(hunk) :
                       OldNumbers(hunk)[n] = hunk.header.old_start + n - 1
                /\ \A n \in DOMAIN NewNumbers(hunk) :
                       NewNumbers(hunk)[n] = hunk.header.new_start + n - 1
                /\ \A n \in DOMAIN hunk.lines :
                       LET l == hunk.lines[n]
                       IN  /\ l.origin \in {"+", "-", " "}
                           /\ IsNone(l.old_lineno) <=> l.origin = "+"
                           /\ IsNone(l.new_lineno) <=> l.origin = "-"

\* C18's case: a hunk whose starts differ, with a marker line in the middle
\* of its text and an added, a removed and a context line parsed from it
C18_Witness ==
    /\ pc = "parse_done"
    /\ Len(parsed) = 1 /\ Len(parsed[1].hunks) = 1
    /\ parsed[1].hunks[1].header.old_start # parsed[1].hunks[1].header.new_start
    /\ \A o \in {"+", "-", " "} :
           \E n \in DOMAIN parsed[1].hunks[1].lines : parsed[1].hunks[1].lines[n].origin = o
    /\ \E i \in 2..(Len(diff_lines) - 2) :
           /\ diff_lines[i] = T_no_newline
           /\ StartsWith(diff_lines[i - 1], <<"-">>)
           /\ diff_lines[i + 1] # <<>> /\ ContinuesDiff(diff_lines[i + 1])

-----------------------------------------------------------------------------
(* Claims about the pipeline run, continued.                                *)

\* the file is flagged generated, is binary, or has no supported extension
Flagged(fd) == fd.generated \/ fd.binary \/ IsNone(detect_language(FdPath(fd)))

\* the paths of a file of the diff
PathsOf(fd) ==
    {FdPath(fd)} \cup {Get(q) : q \in {fd.old_path, fd.new_path} \ {None}}

\* the flags set on a record of the output
FlagsSet(fc) ==
    {f \in {"generated", "binary", "unsupported_language"} :
        \/ f = "generated" /\ fc.generated
        \/ f = "binary" /\ fc.binary
        \/ f = "unsupported_language" /\ fc.unsupported_language}

\* C19: a file that is flagged generated, is binary or has an unsupported
\* extension gets a record with an empty change list; get_content and
\* parse_file are never called for it; none of its symbols reaches the
\* cross-file pass; and no record has more than one of the three flags set.
C19_SkippedFilesUntouched ==
    \A k \in DOMAIN file_changes :
        LET fd == file_diffs[k]
            fc == file_changes[k]
        IN  /\ Cardinality(FlagsSet(fc)) <= 1
            /\ Flagged(fd) =>
                  /\ fc.path = FdPath(fd)
                  /\ fc.changes = <<>>
                  /\ Cardinality(FlagsSet(fc)) = 1
                  /\ \A c \in DOMAIN calls : calls[c].path \notin PathsOf(fd)
                  /\ \A i \in DOMAIN unmatched_old : unmatched_old[i][1] \notin PathsOf(fd)
                  /\ \A i \in DOMAIN unmatched_new : unmatched_new[i][1] \notin PathsOf(fd)
                  /\ \A j \in DOMAIN moves :
                        /\ Get(moves[j].file_from) \notin PathsOf(fd)
                        /\ Get(moves[j].file_to) \notin PathsOf(fd)

\* C19's case: a file flagged generated and binary whose old side declares h,
\* next to a processed file that adds h, at the end of the run
C19_Witness ==
    /\ PipeDone
    /\ \E k \in DOMAIN file_diffs, j \in DOMAIN file_diffs :
          /\ file_diffs[k].generated /\ file_diffs[k].binary
          /\ ~IsNone(file_diffs[k].old_content) /\ Get(file_diffs[k].old_content) # <<>>
          /\ ~Flagged(file_diffs[j])
          /\ \E i \in DOMAIN unmatched_new :
                /\ unmatched_new[i][1] = FdPath(file_diffs[j])
                /\ unmatched_new[i][2][1].name = Get(file_diffs[k].old_content)[1].name
          /\ calls # <<>>

\* a side is absent: its path is, or get_content returned None for it
OldAbsent(fd) == IsNone(fd.old_path) \/ Get(fd.old_path) = <<>> \/ IsNone(fd.old_content)

NewAbsent(fd) == IsNone(fd.new_path) \/ Get(fd.new_path) = <<>> \/ IsNone(fd.new_content)

\* the symbol is one side of a cross-file move
Consumed(sym) ==
    \E j \in DOMAIN moves : Get(moves[j].old).id = sym.id \/ Get(moves[j].new).id = sym.id

ComparedKinds == {"function_modified", "class_modified", "signature_changed"}

-----------------------------------------------------------------------------
(* Claims about the focus list of the summary.                              *)

\* the labels of the ranked changes, in ranking order
RankedLabels ==
    [i \in DOMAIN sorted_changes |-> _focus_label(sorted_changes[i][1], sorted_changes[i][2])]

\* the place of the first ranked change with this label
FirstRanked(label) ==
    CHOOSE i \in DOMAIN RankedLabels :
        RankedLabels[i] = label /\ \A j \in 1..(i - 1) : RankedLabels[j] # label

\* C23: the focus list holds at most 5 labels, all distinct, taken in ranking
\* order from the changes of all files; it is not empty when a change exists;
\* and when a breaking change exists its first label is a BREAKING label.
C23_FocusList ==
    pc \in {"sum_tiers", "sum_done"} =>
        /\ Len(summary.focus) <= 5
        /\ \A i, j \in DOMAIN summary.focus : i # j => summary.focus[i] # summary.focus[j]
        /\ \A i \in DOMAIN summary.focus : summary.focus[i] \in Range(RankedLabels)
        /\ \A i, j \in DOMAIN summary.focus :
              i < j => FirstRanked(summary.focus[i]) < FirstRanked(summary.focus[j])
        /\ \A k \in DOMAIN RankedLabels :
              RankedLabels[k] \notin Range(summary.focus) =>
                 /\ Len(summary.focus) = 5
                 /\ FirstRanked(summary.focus[5]) < k
        /\ AllPairs(files) # <<>> => summary.focus # <<>>
        /\ (\E i \in DOMAIN AllPairs(files) : AllPairs(files)[i][2].breaking)
              => summary.focus[1].text = "BREAKING: '{name}' signature changed"

\* C23's case: more than 5 different labels, a label that two of the first
\* ranked changes share, and a breaking change
C23_Witness ==
    /\ pc = "sum_done"
    /\ Cardinality(Range(RankedLabels)) > 5
    /\ Len(RankedLabels) > 1 /\ RankedLabels[1] = RankedLabels[2]
    /\ sorted_changes[1][2].breaking
    /\ \E i \in DOMAIN files[1].changes : ~files[1].changes[i].breaking

-----------------------------------------------------------------------------
(* Claims about the step-by-step parsing run.                               *)

\* how deep in its loops parse_diff is
LoopRank(at) ==
    CASE at = "parse_done" -> 0
      [] at = "parse_files" -> 1
      [] at = "parse_hunks" -> 2
      [] at = "parse_lines" -> 3
      [] at = "parse_header" -> 4

\* the lines that are diff --git headers with two paths, in order
HeaderIdx ==
    SelectSeq([k \in 1..Len(diff_lines) |-> k],
              LAMBDA k : /\ StartsWith(diff_lines[k], T_diff_git)
                         /\ ~IsNone(DiffGitMatch(diff_lines[k])))

\* the first line behind the file that starts at line h
SegEnd(h) ==
    LET later == {j \in (h + 1)..Len(diff_lines) : StartsWith(diff_lines[j], T_diff_git)}
    IN  IF later = {} THEN Len(diff_lines) + 1 ELSE CHOOSE j \in later : \A q \in later : j <= q

\* the hunk headers of the texts that follow the grammar, with their values
WellFormed == {L_hunk_counts, L_hunk_section}

HeaderOf(line) ==
    IF line = L_hunk_counts THEN HunkHeader(1, 2, 3, 2, <<>>)
    ELSE HunkHeader(10, 1, 12, 1, <<"d", "e", "f", " ", "f">>)

\* the well-formed hunk header lines of the file that starts at line h
HunkIdx(h) ==
    SelectSeq([k \in 1..Len(diff_lines) |-> k],
              LAMBDA k : h < k /\ k < SegEnd(h) /\ diff_lines[k] \in WellFormed)

\* a malformed @@ line of the file that starts at line h
Malformed(h, m) ==
    /\ h < m /\ m < SegEnd(h)
    /\ StartsWith(diff_lines[m], T_at2)
    /\ diff_lines[m] \notin WellFormed

\* every step moves the line index forward or leaves the loop it is in
IndexAdvances ==
    [][\/ line_idx' > line_idx
       \/ line_idx' = line_idx /\ LoopRank(pc') < LoopRank(pc)]_vars

\* one FileDiff per diff --git header, in input order
OneFilePerHeader ==
    /\ Len(parsed) = Len(HeaderIdx)
    /\ \A k \in DOMAIN parsed :
          LET m == Get(DiffGitMatch(diff_lines[HeaderIdx[k]]))
          IN  /\ parsed[k].old_path \in {None, Some(m[1])}
              /\ parsed[k].new_path \in {None, Some(m[2])}

\* the hunks of the k-th file are those of its well-formed headers, in order
HunksOfHeaders(k) ==
    /\ Len(parsed[k].hunks) = Len(HunkIdx(HeaderIdx[k]))
    /\ \A j \in DOMAIN parsed[k].hunks :
          parsed[k].hunks[j].header = HeaderOf(diff_lines[HunkIdx(HeaderIdx[k])[j]])

\* C24 (as the claim states it): parse_diff terminates, the line index moving
\* forward all the way; a @@ line that does not follow the grammar gives no
\* hunk, and every later well-formed hunk of the same file and every later
\* file is parsed, one FileDiff per header in input order.
C24_MalformedHunkSkipped ==
    /\ IndexAdvances
    /\ <>(pc = "parse_done")
    /\ [](pc = "parse_done" =>
            /\ OneFilePerHeader
            /\ \A k \in DOMAIN parsed :
                  (\E m \in DOMAIN diff_lines : Malformed(HeaderIdx[k], m))
                  => HunksOfHeaders(k))

\* C24 with the binary files set apart: a file with a Binary files line among
\* its header lines has no hunks, whatever follows
C24_MalformedHunkSkippedUnlessBinary ==
    /\ IndexAdvances
    /\ <>(pc = "parse_done")
    /\ [](pc = "parse_done" =>
            /\ OneFilePerHeader
            /\ \A k \in DOMAIN parsed :
                  IF parsed[k].binary THEN parsed[k].hunks = <<>> ELSE HunksOfHeaders(k))

\* C24's case: a file with a malformed @@ line before a well-formed hunk, and
\* a file behind it, both parsed
C24_Witness ==
    /\ pc = "parse_done"
    /\ Len(parsed) = 2
    /\ ~parsed[1].binary
    /\ \E m \in DOMAIN diff_lines :
          /\ Malformed(HeaderIdx[1], m)
          /\ \E j \in DOMAIN HunkIdx(HeaderIdx[1]) : m < HunkIdx(HeaderIdx[1])[j]
    /\ Len(parsed[1].hunks) = 1
    /\ Len(parsed[2].hunks) = 1

-----------------------------------------------------------------------------
(* Claims about the order of the passes of run_pipeline                     *)

\* the FileChange list the loop over file_diffs builds, before any move
PerFileChanges ==
    [k \in DOMAIN file_diffs |->
        LET fd == file_diffs[k]
        IN  ProcessedFile(fd, classify_changes(match_symbols(OldSymbols(fd), NewSymbols(fd))))]

\* the number of changes of the kinds in the lists of fcs
KindTotal(fcs, kinds) ==
    Cardinality({i \in DOMAIN AllChanges(fcs) : AllChanges(fcs)[i].kind \in kinds})

\* the number the summary gives for kind k
Counted(k) == IF k \in DOMAIN summary.change_types THEN summary.change_types[k] ELSE 0

CountedStale ==
    Counted("function_added") + Counted("class_added")
        + Counted("function_removed") + Counted("class_removed")

\* every file's unmatched symbols are in the two maps
CompleteSets ==
    \A k \in DOMAIN file_diffs :
        LET fd == file_diffs[k]
            olds == OldSymbols(fd)
            news == NewSymbols(fd)
            ms == match_symbols(olds, news)
        IN  ~ShortCircuits(fd) =>
                /\ UnmatchedOld(olds, ms) # <<>> =>
                       <<FdPath(fd), UnmatchedOld(olds, ms)>> \in Range(unmatched_old)
                /\ UnmatchedNew(news, ms) # <<>> =>
                       <<FdPath(fd), UnmatchedNew(news, ms)>> \in Range(unmatched_new)

AfterLoop == pc \in {"pipe_cross", "pipe_apply", "pipe_done", "pipe_out"}

\* C25: the cross-file pass starts only after the loop over the files has
\* processed every file, so it is given the unmatched symbols of all files;
\* the summary is built only after the moves are patched in, so its counts
\* are those of the patched lists and leave out the records a move replaced
C25_MovesAfterFilesSummaryAfterMoves ==
    /\ AfterLoop <=> idx > Len(file_diffs)
    /\ AfterLoop => Len(file_changes) = Len(file_diffs) /\ CompleteSets
    /\ moves # <<>> => pc \in {"pipe_apply", "pipe_done", "pipe_out"}
    /\ pc = "pipe_apply" =>
           /\ moves = match_cross_file(unmatched_old, unmatched_new)
           /\ file_changes = PerFileChanges
    /\ summary # <<>> \/ tiered # <<>> => pc = "pipe_out"
    /\ pc = "pipe_out" =>
           /\ \A k \in AddedRemovedKinds \cup {"moved"} :
                  Counted(k) = KindTotal(file_changes, {k})
           /\ moves # <<>> =>
                  /\ Counted("moved") >= 1
                  /\ CountedStale < KindTotal(PerFileChanges, AddedRemovedKinds)

C25_Witness ==
    /\ pc = "pipe_out"
    /\ Len(file_diffs) >= 2
    /\ moves # <<>>
    /\ Counted("moved") >= 1
    /\ CountedStale < KindTotal(PerFileChanges, AddedRemovedKinds)

-----------------------------------------------------------------------------
(* Claims about the records _apply_moves removes                            *)

\* r is the removed / added record of a symbol some move consumed, and the
\* file at path is that move's source or destination
ConsumedAt(r, path) ==
    \E j \in DOMAIN moves :
        /\ path \in {Get(moves[j].file_from), Get(moves[j].file_to)}
        /\ r \in {RemovedRecord(Get(moves[j].old)), AddedRecord(Get(moves[j].new))}

\* C26: _apply_moves removes an added / removed record only if it is the
\* record of a symbol consumed by a move and lies in that move's source or
\* destination file; every other record of the per-file lists is kept
C26_OnlyConsumedRecordsRemoved ==
    PipeDone /\ MovesKnown =>
        \A k \in DOMAIN file_changes :
            \A r \in Range(PerFileChanges[k].changes) :
                ~ConsumedAt(r, file_changes[k].path) =>
                    Count(file_changes[k].changes, r) = Count(PerFileChanges[k].changes, r)

-----------------------------------------------------------------------------
(* Claims about the duplicates of one key in the matching run               *)

OldsOf(key) == SelectSeq(old_symbols, LAMBDA s : _key(s) = key)

NewsOf(key) == SelectSeq(new_symbols, LAMBDA s : _key(s) = key)

\* an entry of two symbols with the same signature text
SigPaired(e) ==
    ~IsNone(e.old) /\ ~IsNone(e.new) /\ Get(e.old).signature = Get(e.new).signature

\* the symbols of the key that no entry pairs by signature, in list order
RemOld(key) ==
    SelectSeq(OldsOf(key),
              LAMBDA o : ~\E j \in DOMAIN results :
                              results[j].old = Some(o) /\ SigPaired(results[j]))

RemNew(key) ==
    SelectSeq(NewsOf(key),
              LAMBDA n : ~\E j \in DOMAIN results :
                              results[j].new = Some(n) /\ SigPaired(results[j]))

IndexIn(list, x) == CHOOSE i \in DOMAIN list : list[i] = x

SigCount(list, signature) ==
    Cardinality({i \in DOMAIN list : list[i].signature = signature})

SameSignatures(key) ==
    \A sym \in Range(OldsOf(key)) \cup Range(NewsOf(key)) :
        SigCount(OldsOf(key), sym.signature) = SigCount(NewsOf(key), sym.signature)

DuplicateKeys ==
    {_key(sym) : sym \in Range(old_symbols) \cup Range(new_symbols)}
        \cap {key \in {_key(sym) : sym \in Range(old_symbols) \cup Range(new_symbols)} :
                 Len(OldsOf(key)) > 1 \/ Len(NewsOf(key)) > 1}

\* C27: for a key with several symbols on a side, each old symbol in list
\* order is paired with the earliest new symbol of the same signature text
\* not yet paired; the symbols left are paired k-th with k-th; what is left
\* then is removed or added.  No symbol left after the first pass has a
\* counterpart of the same signature text left, and when the two sides have
\* the same signatures with the same multiplicities every pair has identical
\* signatures, whatever the order of the lists.
C27_DuplicatesBySignatureThenPosition ==
    pc = "match_done" =>
        \A key \in DuplicateKeys :
            LET olds == OldsOf(key)
                news == NewsOf(key)
                ro == RemOld(key)
                rn == RemNew(key)
            IN  /\ \A j \in DOMAIN results :
                       SigPaired(results[j]) /\ _key(Get(results[j].old)) = key =>
                           \A i \in 1..(IndexIn(news, Get(results[j].new)) - 1) :
                               news[i].signature = Get(results[j].old).signature =>
                                   \E j2 \in DOMAIN results :
                                       /\ SigPaired(results[j2])
                                       /\ results[j2].new = Some(news[i])
                                       /\ IndexIn(olds, Get(results[j2].old))
                                              < IndexIn(olds, Get(results[j].old))
                /\ \A k \in DOMAIN ro :
                       \E j \in DOMAIN results :
                           results[j] = MatchedSymbol(Some(ro[k]),
                                                      IF k <= Len(rn) THEN Some(rn[k]) ELSE None,
                                                      None, None)
                /\ \A k \in DOMAIN rn :
                       \E j \in DOMAIN results :
                           results[j] = MatchedSymbol(IF k <= Len(ro) THEN Some(ro[k]) ELSE None,
                                                      Some(rn[k]), None, None)
                /\ \A o \in Range(ro), n \in Range(rn) : o.signature # n.signature
                /\ SameSignatures(key) => ro = <<>> /\ rn = <<>>

\* three old and two new symbols of one key: a pair by signature at different
\* positions, a positional pair and a leftover
C27_Witness ==
    /\ pc = "match_done"
    /\ Len(old_symbols) = 3 /\ Len(new_symbols) = 2
    /\ DuplicateKeys = {_key(old_symbols[1])}
    /\ Len(RemOld(_key(old_symbols[1]))) = 2
    /\ Len(RemNew(_key(old_symbols[1]))) = 1
    /\ \E j \in DOMAIN results :
           /\ SigPaired(results[j])
           /\ IndexIn(old_symbols, Get(results[j].old)) # IndexIn(new_symbols, Get(results[j].new))

-----------------------------------------------------------------------------
(* Claims about the moves of the cross-file run                             *)

\* index of the (file, symbol) pair of this symbol in the flattened map
PairIndex(unmatched, sym) ==
    CHOOSE i \in DOMAIN Flatten(unmatched) : Flatten(unmatched)[i][2].id = sym.id

\* the moves pair unmatched symbols of the two maps, each at most once,
\* within one key and across two files
OneToOneMoves ==
    /\ \A j \in DOMAIN moves :
          LET m == moves[j]
          IN  /\ <<Get(m.file_from), Get(m.old)>> \in Range(Flatten(unmatched_old))
              /\ <<Get(m.file_to), Get(m.new)>> \in Range(Flatten(unmatched_new))
              /\ _key(Get(m.old)) = _key(Get(m.new))
              /\ Get(m.file_from) # Get(m.file_to)
    /\ \A j, k \in DOMAIN moves :
          j # k => /\ Get(moves[j].old).id # Get(moves[k].old).id
                   /\ Get(moves[j].new).id # Get(moves[k].new).id

\* C28 (as the claim states it): the moves are a one-to-one partial matching
\* within one key and across two files, and the old symbol of a move is the
\* first old symbol in iteration order that qualifies for its new symbol
C28_OneToOneFirstQualifying ==
    MovesKnown =>
        /\ OneToOneMoves
        /\ \A j \in DOMAIN moves :
              \A i \in 1..(PairIndex(unmatched_old, Get(moves[j].old)) - 1) :
                  ~Qualifies(Flatten(unmatched_old)[i],
                             <<Get(moves[j].file_to), Get(moves[j].new)>>)

\* the move that has this symbol as its old side, 0 when none
MoveOfOld(sym) ==
    IF \E j \in DOMAIN moves : Get(moves[j].old).id = sym.id
    THEN CHOOSE j \in DOMAIN moves : Get(moves[j].old).id = sym.id
    ELSE 0

\* the new symbol at k is the new side of a move whose old symbol comes before i
TakenBefore(k, i) ==
    \E j \in DOMAIN moves :
        /\ Get(moves[j].new).id = Flatten(unmatched_new)[k][2].id
        /\ PairIndex(unmatched_old, Get(moves[j].old)) < i

\* C28 (amended): the moves are a one-to-one partial matching within one key
\* and across two files; an old symbol takes the first candidate that
\* qualifies and that no earlier old symbol has taken, so a qualifying
\* candidate an old symbol did not take was taken by an earlier old symbol
C28_OneToOneFirstComeFirstServed ==
    MovesKnown =>
        /\ OneToOneMoves
        /\ \A i \in DOMAIN Flatten(unmatched_old), k \in DOMAIN Flatten(unmatched_new) :
              LET j == MoveOfOld(Flatten(unmatched_old)[i][2])
              IN  /\ Qualifies(Flatten(unmatched_old)[i], Flatten(unmatched_new)[k])
                  /\ (j = 0 \/ PairIndex(unmatched_new, Get(moves[j].new)) > k)
                  => TakenBefore(k, i)

\* two old symbols qualify for one new symbol, each is in a move, and one
\* old symbol has a candidate of its key in its own file
C28_Witness ==
    /\ pc = "pipe_apply"
    /\ Len(moves) = 2
    /\ \E i \in DOMAIN Flatten(unmatched_old) :
          /\ i < PairIndex(unmatched_old, Get(moves[2].old))
          /\ Qualifies(Flatten(unmatched_old)[i], <<Get(moves[2].file_to), Get(moves[2].new)>>)
    /\ \E i \in DOMAIN Flatten(unmatched_old), k \in DOMAIN Flatten(unmatched_new) :
          /\ Flatten(unmatched_old)[i][1] = Flatten(unmatched_new)[k][1]
          /\ _key(Flatten(unmatched_old)[i][2]) = _key(Flatten(unmatched_new)[k][2])
          /\ Agree(Flatten(unmatched_old)[i][2], Flatten(unmatched_new)[k][2])

-----------------------------------------------------------------------------
(* Claims about the order in which the files reach the cross-file pass      *)

\* unmatched.get(path, [])
MapGet(unmatched, path) ==
    IF \E i \in DOMAIN unmatched : unmatched[i][1] = path
    THEN unmatched[CHOOSE i \in DOMAIN unmatched : unmatched[i][1] = path][2]
    ELSE <<>>

\* the map with the entries of unmatched put in in the order of the files
RECURSIVE InFileOrder(_, _)
InFileOrder(unmatched, n) ==
    IF n = 0 THEN <<>>
    ELSE DictSet(InFileOrder(unmatched, n - 1), file_changes[n].path,
                 MapGet(unmatched, file_changes[n].path))

\* the moves of the run in which the files finish in the order of the diff
MovesInFileOrder ==
    match_cross_file(InFileOrder(unmatched_old, Len(file_changes)),
                     InFileOrder(unmatched_new, Len(file_changes)))

MoveSet(ms) ==
    {<<Get(ms[j].old).id, Get(ms[j].new).id, Get(ms[j].file_from), Get(ms[j].file_to)>> :
        j \in DOMAIN ms}

\* C30: in whatever order the files' unmatched symbols are put into the two
\* maps, match_cross_file returns the same set of (old symbol, new symbol,
\* file_from, file_to) moves as for the order of the diff
C30_MovesIndependentOfFileOrder ==
    MovesKnown => MoveSet(moves) = MoveSet(MovesInFileOrder)

-----------------------------------------------------------------------------
(* Claims about the reference scan run                                      *)

\* C21: every Reference find_references returns has a file_path outside
\* changed_files and a symbol_name among the changed symbol names, the list
\* is in non-decreasing order of (file_path, line), and for an empty list
\* of changed symbols the result is empty
C21_ReferencesOutsideDiffSorted ==
    pc = "deps_done" =>
        /\ \A i \in DOMAIN references :
              /\ references[i].file_path \notin changed_files
              /\ references[i].symbol_name \in Range(changed_symbols)
        /\ \A i, j \in DOMAIN references :
              i < j =>
                  \/ StrLess(references[i].file_path, references[j].file_path)
                  \/ /\ references[i].file_path = references[j].file_path
                     /\ references[i].line <= references[j].line
        /\ changed_symbols = <<>> => references = <<>>

\* git grep could not be started, a file of the diff holds one of the names,
\* and references come back from the other file
C21_Witness ==
    /\ pc = "deps_done"
    /\ grep_fails
    /\ changed_files = {RefPaths[1]}
    /\ ~IsNone(repo[1].content)
    /\ \E row \in DOMAIN Get(repo[1].content) :
          \E k \in DOMAIN Get(repo[1].content)[row] :
              /\ Get(repo[1].content)[row][k].kind # "text"
              /\ Get(repo[1].content)[row][k].name \in Range(changed_symbols)
    /\ Len(references) >= 2
    /\ \E i \in DOMAIN references : references[i].line > 1

-----------------------------------------------------------------------------
(* Claims about the review run                                              *)

\* a change with before and after signatures, a breaking change, a removed
\* symbol or a moved symbol
HighSignal(c) ==
    \/ ~IsNone(c.before_signature) /\ ~IsNone(c.after_signature)
    \/ c.breaking
    \/ c.kind \in {"function_removed", "class_removed"}
    \/ c.kind = "moved"

\* the pipeline ran and its output holds a high-signal change
HasFindings ==
    /\ Strip(diff_text) # <<>>
    /\ \E i \in DOMAIN output : \E k \in DOMAIN output[i].changes :
           HighSignal(output[i].changes[k])

\* the run ended in the exception handler
Failed == "Error: {exc}" \in Range(stderr)

ExitRule ==
    /\ pc = "cli_except" => IsNone(exit_code) /\ ENABLED HandleError
    /\ pc = "cli_exit" =>
           /\ Failed <=> exit_code = Some(EXIT_ERROR)
           /\ ~Failed => (exit_code = Some(EXIT_FINDINGS) <=> HasFindings)
           /\ ~Failed /\ ~HasFindings => exit_code = Some(EXIT_SUCCESS)

-----------------------------------------------------------------------------
(* C29: receiver-style signatures.                                          *)

IsGoMethod(node) == "receiver" \in DOMAIN node

\* the method's own parameters, as texts
OwnParams(node) == [i \in DOMAIN node.params |-> GoParamText(node.params[i])]

OwnParamsChanged ==
    LET o == OwnParams(old_node)
        n == OwnParams(new_node)
    IN  \/ Len(n) < Len(o)
        \/ Len(n) > Len(o)
        \/ \E i \in DOMAIN o \cap DOMAIN n : o[i] # n[i]

ResultChanged ==
    /\ ~IsNone(old_node.result)
    /\ ~IsNone(new_node.result)
    /\ old_node.result # new_node.result

\* C29: for two Go method signatures 'func (recv) Name(params) result', a
\* removed parameter, an added parameter or a changed parameter text in the
\* method's own parameter list makes is_breaking_change true, and so does a
\* result type that is present on both sides and differs.
C29_GoMethodOwnParameters ==
    pc = "sig_done" /\ IsGoMethod(old_node) /\ IsGoMethod(new_node)
        => (OwnParamsChanged \/ ResultChanged => breaking = Some(TRUE))

====
